---- MODULE Spec2Model ----
(***************************************************************************)
(* A model of rustyknife's header-value decoders.                          *)
(*                                                                         *)
(* Bytes are the integers 0..255, byte strings are sequences of bytes, and *)
(* text (Rust String / str) is a sequence of Unicode code points.          *)
(* Option<u32> is -1 (NoSection) or the number; Option<&[u8]> of a         *)
(* non-empty token is the empty sequence (NoEncoding) or the token.        *)
(***************************************************************************)
EXTENDS Integers, Sequences, FiniteSets, TLC

VARIABLES
    \* ---- rfc2231::decode_parameter_list / decode_segments ----
    params,              \* the argument `input` of decode_parameter_list
    input,               \* what is left of the `for Parameter {..} in input` loop
    simple,              \* HashMap<String, String>
    simple_encoded,      \* HashMap<String, String>
    composite,           \* HashMap<String, Vec<(u32, Segment)>>
    composite_encoding,  \* HashMap<String, &'static Encoding>
    composite_out,       \* Vec<(String, String)>, kept as a map (names are unique)
    todo,                \* names the `for (name, segments) in composite` loop has not visited
    seg,                 \* the locals of the current call of decode_segments
    result,              \* the returned Vec<(String, String)>, kept as a map
    \* ---- rfc2047::encoded_word and EncodedWord::decode ----
    word,                \* the pieces the input bytes were written from
    ew,                  \* input, leftover and outputs of the parsers of encoded_word
    \* ---- rfc2231::content_disposition ----
    header,              \* the pieces the input bytes were written from
    cd,                  \* input, leftover and outputs of the parsers of content_disposition
    \* ---- rfc5322: display_name, quoted_string, unstructured, from/sender/reply_to ----
    imf,                 \* the function called, its policy and the pieces of its input
    run,                 \* input, leftover and locals of that function
    \* ---- rfc3461::dsn_mail_params, rfc3461::dsn_notify ----
    dsn,                 \* the argument and the locals of the function called
    \* ---- headersection::header_section ----
    hs,                  \* the buffer and the locals of header_section
    \* ---- xforward::xforward_params ----
    xf,                  \* the argument and the locals of xforward_params
    \* ---- control position of the function under way ----
    pc

vars == <<params, input, simple, simple_encoded, composite, composite_encoding,
          composite_out, todo, seg, result, word, ew, header, cd, imf, run, dsn, hs,
          xf, pc>>

\* The variables of the other functions, which a step of one function leaves alone.
paramVars == <<params, input, simple, simple_encoded, composite,
               composite_encoding, composite_out, todo, seg, result>>

wordVars == <<word, ew>>

dispositionVars == <<header, cd>>

imfVars == <<imf, run>>

notParamVars == <<wordVars, dispositionVars, imfVars, dsn, hs, xf>>

notWordVars == <<paramVars, dispositionVars, imfVars, dsn, hs, xf>>

notDispositionVars == <<paramVars, wordVars, imfVars, dsn, hs, xf>>

notImfVars == <<paramVars, wordVars, dispositionVars, dsn, hs, xf>>

notDsnVars == <<paramVars, wordVars, dispositionVars, imfVars, hs, xf>>

notHsVars == <<paramVars, wordVars, dispositionVars, imfVars, dsn, xf>>

notXfVars == <<paramVars, wordVars, dispositionVars, imfVars, dsn, hs>>

\* The values of `word` and `ew` while encoded_word is not running.
NoWord == [charset |-> <<>>, encoding |-> <<>>, text |-> <<>>, shape |-> "none"]

NoParse == [input |-> <<>>, rest |-> <<>>, charset |-> <<>>, encoding |-> <<>>,
            text |-> <<>>, bytes |-> <<>>, decoded |-> <<>>]

\* The values of `header` and `cd` while content_disposition is not running.
NoHeader == [lead |-> <<>>, token |-> <<>>, tail |-> <<>>]

NoDisposition == [kind |-> "none", text |-> <<>>]

\* The values of `imf`, `run`, `dsn`, `hs` and `xf` while their functions are not running.
NoImf == [fn |-> "none"]

NoRun == [input |-> <<>>]

NoDsn == [input |-> <<>>]

NoHs == [input |-> <<>>]

NoXf == [input |-> <<>>]

ImfIdle == imf = NoImf /\ run = NoRun

DsnIdle == dsn = NoDsn

HsIdle == hs = NoHs

XfIdle == xf = NoXf

-----------------------------------------------------------------------------
(* Generic helpers for sequences and maps.                                 *)

RECURSIVE Flatten(_)
Flatten(ss) == IF ss = <<>> THEN <<>> ELSE Head(ss) \o Flatten(Tail(ss))

Front(s) == SubSeq(s, 1, Len(s) - 1)

Last(s) == s[Len(s)]

EmptyMap == [x \in {} |-> <<>>]

\* HashMap::insert: the new value replaces the old one.
MapInsert(m, k, v) == [x \in (DOMAIN m) \cup {k} |-> IF x = k THEN v ELSE m[x]]

NoHeaderParse == [input |-> <<>>, rest |-> <<>>, disposition |-> NoDisposition,
                  params |-> <<>>, out |-> EmptyMap]

-----------------------------------------------------------------------------
(* Character data: str::to_lowercase on ASCII names, charset labels and    *)
(* the two codecs the model carries.                                       *)

\* u8::to_ascii_lowercase / char::to_lowercase restricted to ASCII.
LowerByte(c) == IF c \in 65..90 THEN c + 32 ELSE c

\* name.name.to_lowercase(): names are attributes, hence ASCII.
to_lowercase(s) == [i \in 1..Len(s) |-> LowerByte(s[i])]

\* charset::decode_ascii(label).as_bytes(): bytes above 127 become U+FFFD,
\* whose UTF-8 form is EF BF BD.
RECURSIVE decode_ascii(_)
decode_ascii(b) ==
    IF b = <<>> THEN <<>>
    ELSE (IF Head(b) < 128 THEN <<Head(b)>> ELSE <<239, 191, 189>>)
         \o decode_ascii(Tail(b))

IsLabelSpace(c) == c \in {9, 10, 12, 13, 32}

RECURSIVE TrimLeft(_)
TrimLeft(b) ==
    IF b # <<>> /\ IsLabelSpace(Head(b)) THEN TrimLeft(Tail(b)) ELSE b

RECURSIVE TrimRight(_)
TrimRight(b) ==
    IF b # <<>> /\ IsLabelSpace(Last(b)) THEN TrimRight(Front(b)) ELSE b

\* The labels of the Encoding Standard for the two codecs of the model:
\* "utf-8", "utf8", and "latin1", "iso-8859-1", "us-ascii", "ascii".
Utf8Labels == { <<117, 116, 102, 45, 56>>, <<117, 116, 102, 56>> }

Windows1252Labels ==
    { <<108, 97, 116, 105, 110, 49>>,
      <<105, 115, 111, 45, 56, 56, 53, 57, 45, 49>>,
      <<117, 115, 45, 97, 115, 99, 105, 105>>,
      <<97, 115, 99, 105, 105>> }

\* Encoding::for_label: trim ASCII whitespace, lowercase, look the label up.
\* "NoCodec" stands for None.
for_label(label) ==
    LET l == to_lowercase(TrimRight(TrimLeft(label)))
    IN  IF l \in Utf8Labels THEN "UTF_8"
        ELSE IF l \in Windows1252Labels THEN "WINDOWS_1252"
        ELSE "NoCodec"

\* The UTF-8 decoder of the Encoding Standard (what encoding_rs implements):
\* needed = continuation bytes still expected, cp = code point so far,
\* lower..upper = the range the next continuation byte must lie in.
RECURSIVE Utf8Decode(_, _, _, _, _)
Utf8Decode(b, needed, cp, lower, upper) ==
    IF b = <<>> THEN (IF needed = 0 THEN <<>> ELSE <<65533>>)
    ELSE LET byte == Head(b)
             rest == Tail(b)
         IN  IF needed = 0 THEN
                 IF byte <= 127 THEN <<byte>> \o Utf8Decode(rest, 0, 0, 128, 191)
                 ELSE IF byte \in 194..223 THEN
                     Utf8Decode(rest, 1, byte % 32, 128, 191)
                 ELSE IF byte \in 224..239 THEN
                     Utf8Decode(rest, 2, byte % 16,
                                IF byte = 224 THEN 160 ELSE 128,
                                IF byte = 237 THEN 159 ELSE 191)
                 ELSE IF byte \in 240..244 THEN
                     Utf8Decode(rest, 3, byte % 8,
                                IF byte = 240 THEN 144 ELSE 128,
                                IF byte = 244 THEN 143 ELSE 191)
                 ELSE <<65533>> \o Utf8Decode(rest, 0, 0, 128, 191)
             ELSE IF byte \notin lower..upper THEN
                 \* the byte is put back and decoded again from the start state
                 <<65533>> \o Utf8Decode(b, 0, 0, 128, 191)
             ELSE IF needed = 1 THEN
                 <<cp * 64 + (byte % 64)>> \o Utf8Decode(rest, 0, 0, 128, 191)
             ELSE Utf8Decode(rest, needed - 1, cp * 64 + (byte % 64), 128, 191)

\* windows-1252, the index of bytes 0x80..0x9F.
Windows1252High ==
    <<8364, 129, 8218, 402, 8222, 8230, 8224, 8225, 710, 8240, 352, 8249, 338,
      141, 381, 143, 144, 8216, 8217, 8220, 8221, 8226, 8211, 8212, 732, 8482,
      353, 8250, 339, 157, 382, 376>>

Windows1252Decode(b) ==
    [i \in 1..Len(b) |->
        IF b[i] \in 128..159 THEN Windows1252High[b[i] - 127] ELSE b[i]]

\* Encoding::decode_without_bom_handling(bytes).0
decode_without_bom_handling(codec, bytes) ==
    IF codec = "UTF_8" THEN Utf8Decode(bytes, 0, 0, 128, 191)
    ELSE Windows1252Decode(bytes)


-----------------------------------------------------------------------------
(* rfc2231: Parameter, Name, Value, ExtendedValue, Segment.                *)

NoSection == -1

NoEncoding == <<>>

\* Value::Regular(text)
Regular(v) == [kind |-> "Regular", encoding |-> NoEncoding, value |-> v]

\* Value::Extended(ExtendedValue::Initial { encoding, language, value });
\* decode_parameter_list drops `language` (the `..` of its patterns).
Initial(enc, v) == [kind |-> "Initial", encoding |-> enc, value |-> v]

\* Value::Extended(ExtendedValue::Other(bytes))
Other(v) == [kind |-> "Other", encoding |-> NoEncoding, value |-> v]

Parameter(n, s, v) == [name |-> n, section |-> s, value |-> v]

Encoded(b) == [kind |-> "Encoded", v |-> b]

Decoded(t) == [kind |-> "Decoded", v |-> t]

-----------------------------------------------------------------------------
(* decode_segments                                                         *)

\* sort_by left out: the segments stay in input order.
SortNone(s) == s

\* Vec::sort_by(|a, b| a.0.cmp(&b.0)): a stable sort on the section number.
RECURSIVE sort_by(_)
sort_by(s) ==
    IF s = <<>> THEN <<>>
    ELSE LET r == sort_by(Front(s))
             x == Last(s)
             k == Cardinality({i \in 1..Len(r) : r[i][1] <= x[1]})
         IN  SubSeq(r, 1, k) \o <<x>> \o SubSeq(r, k + 1, Len(r))

\* The locals of decode_segments right after the sort; `sorted` and `calls`
\* (the buffers handed to the `decode` closure so far) are kept for the record.
SegmentsStart(n, segments, encoding) ==
    [name |-> n, codec |-> encoding, sorted |-> sort_by(segments),
     input |-> sort_by(segments), out |-> <<>>, encoded |-> <<>>,
     calls |-> <<>>, finished |-> FALSE]

\* `decode` without bytes.clear().
DecodeNoClear(s) ==
    [s EXCEPT !.out = @ \o decode_without_bom_handling(s.codec, s.encoded),
              !.calls = Append(@, s.encoded)]

\* The closure `decode`: the buffer is decoded onto `out` and cleared.
decode(s) ==
    [s EXCEPT !.out = @ \o decode_without_bom_handling(s.codec, s.encoded),
              !.encoded = <<>>,
              !.calls = Append(@, s.encoded)]

\* Segment::Encoded(mut bytes) => encoded.append(&mut bytes)
SegmentEncodedStep(s) ==
    [s EXCEPT !.encoded = @ \o Head(s.input)[2].v, !.input = Tail(@)]

\* Segment::Decoded(s) => { decode(&mut encoded, &mut out); out.push_str(&s) }
SegmentDecodedStep(s) ==
    LET d == decode(s)
    IN  [d EXCEPT !.out = @ \o Head(s.input)[2].v, !.input = Tail(@)]

\* The trailing decode(&mut encoded, &mut out) and the return of `out`.
SegmentsFinish(s) == [decode(s) EXCEPT !.finished = TRUE]

RECURSIVE SegmentsRun(_)
SegmentsRun(s) ==
    IF s.input = <<>> THEN SegmentsFinish(s)
    ELSE IF Head(s.input)[2].kind = "Encoded" THEN SegmentsRun(SegmentEncodedStep(s))
    ELSE SegmentsRun(SegmentDecodedStep(s))

decode_segments(segments, encoding) ==
    SegmentsRun(SegmentsStart(<<>>, segments, encoding)).out

-----------------------------------------------------------------------------
(* decode_parameter_list                                                   *)

\* Encoding::for_label(decode_ascii(encoding_name).as_bytes())
LabelCodec(encoding_name) == for_label(decode_ascii(encoding_name))

\* match encoding_name { Some(l) => for_label(..).unwrap_or(UTF_8), None => UTF_8 }
SimpleCodec(encoding_name) ==
    IF encoding_name = NoEncoding \/ LabelCodec(encoding_name) = "NoCodec"
    THEN "UTF_8"
    ELSE LabelCodec(encoding_name)

\* The entry is overwritten instead of pushed to.
EntryReplace(m, k, item) == MapInsert(m, k, <<item>>)

\* composite.entry(name_norm.clone()).or_default() followed by ent.push(item)
EntryPush(m, k, item) ==
    MapInsert(m, k, Append(IF k \in DOMAIN m THEN m[k] ELSE <<>>, item))

\* An insert that keeps the codec already recorded for the name.
CompositeEncodingKeepFirst(m, name_norm, encoding_name) ==
    IF /\ encoding_name # NoEncoding
       /\ LabelCodec(encoding_name) # "NoCodec"
       /\ name_norm \notin DOMAIN m
    THEN MapInsert(m, name_norm, LabelCodec(encoding_name))
    ELSE m

\* The composite_encoding map after an extended-initial segment with a section.
CompositeEncodingInsert(m, name_norm, encoding_name) ==
    IF encoding_name # NoEncoding /\ LabelCodec(encoding_name) # "NoCodec"
    THEN MapInsert(m, name_norm, LabelCodec(encoding_name))
    ELSE m

LoopStart ==
    [simple |-> EmptyMap, simple_encoded |-> EmptyMap,
     composite |-> EmptyMap, composite_encoding |-> EmptyMap]

\* One iteration of `for Parameter { name, value } in input`.
LoopBody(st, p) ==
    LET name_norm == to_lowercase(p.name)
    IN  IF p.section = NoSection THEN
            IF p.value.kind = "Regular" THEN
                [st EXCEPT !.simple = MapInsert(@, name_norm, p.value.value)]
            ELSE
                [st EXCEPT !.simple_encoded =
                    MapInsert(@, name_norm,
                        decode_without_bom_handling(SimpleCodec(p.value.encoding),
                                                    p.value.value))]
        ELSE IF p.value.kind = "Regular" THEN
            [st EXCEPT !.composite =
                EntryPush(@, name_norm, <<p.section, Decoded(p.value.value)>>)]
        ELSE IF p.value.kind = "Initial" THEN
            [st EXCEPT !.composite_encoding =
                           CompositeEncodingInsert(@, name_norm, p.value.encoding),
                       !.composite =
                           EntryPush(@, name_norm, <<p.section, Encoded(p.value.value)>>)]
        ELSE
            [st EXCEPT !.composite =
                EntryPush(@, name_norm, <<p.section, Encoded(p.value.value)>>)]

\* composite_encoding.get(&name).cloned().unwrap_or(UTF_8)
CompositeCodec(ce, n) == IF n \in DOMAIN ce THEN ce[n] ELSE "UTF_8"

\* A merge in which the regular value is kept over the extended one.
MergeRegularWins(s, se, co) ==
    [n \in (DOMAIN s) \cup (DOMAIN se) \cup (DOMAIN co) |->
        IF n \in DOMAIN co THEN co[n]
        ELSE IF n \in DOMAIN s THEN s[n]
        ELSE se[n]]

\* A merge in which the values of names without section are kept over the
\* reassembled ones.
MergeSimpleWins(s, se, co) ==
    [n \in (DOMAIN s) \cup (DOMAIN se) \cup (DOMAIN co) |->
        IF n \in DOMAIN se THEN se[n]
        ELSE IF n \in DOMAIN s THEN s[n]
        ELSE co[n]]

\* for (name, value) in simple_encoded.into_iter().chain(composite_out) {
\*     simple.insert(name, value) }; simple.into_iter().collect()
Merge(s, se, co) ==
    [n \in (DOMAIN s) \cup (DOMAIN se) \cup (DOMAIN co) |->
        IF n \in DOMAIN co THEN co[n]
        ELSE IF n \in DOMAIN se THEN se[n]
        ELSE s[n]]

RECURSIVE LoopRun(_, _)
LoopRun(st, ps) == IF ps = <<>> THEN st ELSE LoopRun(LoopBody(st, Head(ps)), Tail(ps))

\* The whole function, as the map from name to value of the returned pairs.
decode_parameter_list(ps) ==
    LET st == LoopRun(LoopStart, ps)
        co == [n \in DOMAIN st.composite |->
                  decode_segments(st.composite[n],
                                  CompositeCodec(st.composite_encoding, n))]
    IN  Merge(st.simple, st.simple_encoded, co)

-----------------------------------------------------------------------------
(* The parameter lists decode_parameter_list is run on.  Every parameter   *)
(* is one the grammar of `parameter` produces: an extended-initial value   *)
(* has no section or section 0, a continuation has a section above 0.      *)

MaxParams == 3

NameTitle == <<116, 105, 116, 108, 101>>        \* "title"

NameTitleCap == <<84, 105, 116, 108, 101>>      \* "Title"

NameX == <<120>>                                \* "x"

TextHello == <<104, 101, 108, 108, 111>>        \* "hello"

TextWorld == <<119, 111, 114, 108, 100>>        \* "world"

LabelUtf8 == <<117, 116, 102, 45, 56>>          \* "utf-8"

LabelLatin1 == <<76, 97, 116, 105, 110, 49>>    \* "Latin1"

LabelBogus == <<98, 111, 103, 117, 115>>        \* "bogus"

ParamSet ==
    { Parameter(NameTitle, 0, Regular(TextHello)),             \* title*0="hello"
      Parameter(NameTitle, 1, Regular(TextWorld)),             \* title*1="world"
      Parameter(NameTitle, 2, Regular(<<>>)),                  \* title*2=""
      Parameter(NameTitle, 0, Initial(LabelUtf8, <<195>>)),    \* title*0*=utf-8''%C3
      Parameter(NameTitleCap, 0, Initial(LabelLatin1, <<195>>)), \* Title*0*=Latin1''%C3
      Parameter(NameTitle, 0, Initial(LabelBogus, <<169>>)),   \* title*0*=bogus''%A9
      Parameter(NameTitle, 1, Other(<<169>>)),                 \* title*1*=%A9
      Parameter(NameTitle, 2, Other(<<195>>)),                 \* title*2*=%C3
      Parameter(NameTitle, NoSection, Regular(<<97>>)),        \* title=a
      Parameter(NameTitleCap, NoSection, Regular(<<98>>)),     \* Title=b
      Parameter(NameTitle, NoSection, Initial(NoEncoding, <<195, 169>>)), \* title*=''%C3%A9
      Parameter(NameTitle, NoSection, Initial(LabelLatin1, <<233>>)),     \* title*=Latin1''%E9
      Parameter(NameX, 1, Other(<<65>>)),                      \* x*1*=A
      Parameter(NameX, NoSection, Initial(LabelBogus, <<233>>)) }         \* x*=bogus''%E9

ParamLists == UNION { [1..n -> ParamSet] : n \in 0..MaxParams }

-----------------------------------------------------------------------------
(* decode_parameter_list as a machine: one step per loop iteration.        *)

IdleSegments == SegmentsStart(<<>>, <<>>, "UTF_8")

Locals == [simple |-> simple, simple_encoded |-> simple_encoded,
           composite |-> composite, composite_encoding |-> composite_encoding]

\* One iteration of the first loop, on the parameter at the head of `input`.
Iterate ==
    LET st == LoopBody(Locals, Head(input))
    IN  /\ simple' = st.simple
        /\ simple_encoded' = st.simple_encoded
        /\ composite' = st.composite
        /\ composite_encoding' = st.composite_encoding
        /\ input' = Tail(input)
        /\ UNCHANGED notParamVars /\ UNCHANGED <<params, composite_out, todo, seg, result, pc>>

InitParams ==
    /\ params \in ParamLists
    /\ input = params
    /\ simple = EmptyMap
    /\ simple_encoded = EmptyMap
    /\ composite = EmptyMap
    /\ composite_encoding = EmptyMap
    /\ composite_out = EmptyMap
    /\ todo = {}
    /\ seg = IdleSegments
    /\ result = EmptyMap
    /\ word = NoWord
    /\ ew = NoParse
    /\ pc = "loop"
    /\ header = NoHeader
    /\ cd = NoHeaderParse
    /\ ImfIdle /\ DsnIdle /\ HsIdle /\ XfIdle

\* name.section == None, Value::Regular
SimpleRegular ==
    /\ pc = "loop" /\ input # <<>>
    /\ Head(input).section = NoSection
    /\ Head(input).value.kind = "Regular"
    /\ Iterate

\* name.section == None, Value::Extended(ExtendedValue::Initial {..})
SimpleInitial ==
    /\ pc = "loop" /\ input # <<>>
    /\ Head(input).section = NoSection
    /\ Head(input).value.kind = "Initial"
    /\ Iterate

\* name.section == Some(section), Value::Regular
CompositeRegular ==
    /\ pc = "loop" /\ input # <<>>
    /\ Head(input).section # NoSection
    /\ Head(input).value.kind = "Regular"
    /\ Iterate

\* name.section == Some(section), Value::Extended(ExtendedValue::Initial {..})
CompositeInitial ==
    /\ pc = "loop" /\ input # <<>>
    /\ Head(input).section # NoSection
    /\ Head(input).value.kind = "Initial"
    /\ Iterate

\* name.section == Some(section), Value::Extended(ExtendedValue::Other(v))
CompositeOther ==
    /\ pc = "loop" /\ input # <<>>
    /\ Head(input).section # NoSection
    /\ Head(input).value.kind = "Other"
    /\ Iterate

\* The first loop ends; `for (name, segments) in composite` begins.
LoopEnd ==
    /\ pc = "loop" /\ input = <<>>
    /\ todo' = DOMAIN composite
    /\ pc' = "composite"
    /\ UNCHANGED notParamVars /\ UNCHANGED <<params, input, simple, simple_encoded, composite,
                   composite_encoding, composite_out, seg, result>>

\* The next entry of `composite`, in the map's (arbitrary) iteration order:
\* decode_segments is entered and sorts its input.
CompositeNext ==
    /\ pc = "composite"
    /\ \E n \in todo :
          /\ seg' = SegmentsStart(n, composite[n],
                                  CompositeCodec(composite_encoding, n))
          /\ todo' = todo \ {n}
    /\ pc' = "segments"
    /\ UNCHANGED notParamVars /\ UNCHANGED <<params, input, simple, simple_encoded, composite,
                   composite_encoding, composite_out, result>>

SegmentEncoded ==
    /\ pc = "segments" /\ seg.input # <<>>
    /\ Head(seg.input)[2].kind = "Encoded"
    /\ seg' = SegmentEncodedStep(seg)
    /\ UNCHANGED notParamVars /\ UNCHANGED <<params, input, simple, simple_encoded, composite,
                   composite_encoding, composite_out, todo, result, pc>>

SegmentDecoded ==
    /\ pc = "segments" /\ seg.input # <<>>
    /\ Head(seg.input)[2].kind = "Decoded"
    /\ seg' = SegmentDecodedStep(seg)
    /\ UNCHANGED notParamVars /\ UNCHANGED <<params, input, simple, simple_encoded, composite,
                   composite_encoding, composite_out, todo, result, pc>>

\* decode_segments returns; composite_out.push((name, value)).
SegmentsReturn ==
    /\ pc = "segments" /\ seg.input = <<>>
    /\ seg' = SegmentsFinish(seg)
    /\ composite_out' = MapInsert(composite_out, seg.name, seg'.out)
    /\ pc' = "composite"
    /\ UNCHANGED notParamVars /\ UNCHANGED <<params, input, simple, simple_encoded, composite,
                   composite_encoding, todo, result>>

\* The merge into `simple` and the return.
MergeReturn ==
    /\ pc = "composite" /\ todo = {}
    /\ result' = Merge(simple, simple_encoded, composite_out)
    /\ pc' = "done"
    /\ UNCHANGED notParamVars /\ UNCHANGED <<params, input, simple, simple_encoded, composite,
                   composite_encoding, composite_out, todo, seg>>

NextParams ==
    \/ SimpleRegular
    \/ SimpleInitial
    \/ CompositeRegular
    \/ CompositeInitial
    \/ CompositeOther
    \/ LoopEnd
    \/ CompositeNext
    \/ SegmentEncoded
    \/ SegmentDecoded
    \/ SegmentsReturn
    \/ MergeReturn

Spec == InitParams /\ [][NextParams]_vars

-----------------------------------------------------------------------------
(* Vocabulary of the claims about parameter reassembly.                    *)

NormName(p) == to_lowercase(p.name)

\* The parameters of list ps that carry name n with a section index.
Sectioned(ps, n) ==
    SelectSeq(ps, LAMBDA p : NormName(p) = n /\ p.section # NoSection)

\* The parameters of list ps that carry name n without a section index.
Unsectioned(ps, n) ==
    SelectSeq(ps, LAMBDA p : NormName(p) = n /\ p.section = NoSection)

SectionedNames(ps) ==
    { NormName(ps[i]) : i \in { j \in 1..Len(ps) : ps[j].section # NoSection } }

UnsectionedNames(ps) ==
    { NormName(ps[i]) : i \in { j \in 1..Len(ps) : ps[j].section = NoSection } }

SectionsOf(ps) == { ps[i].section : i \in 1..Len(ps) }

DistinctSections(ps) ==
    \A i, j \in 1..Len(ps) : i # j => ps[i].section # ps[j].section

Permute(ps, f) == [i \in 1..Len(ps) |-> ps[f[i]]]

SetMax(S) == CHOOSE m \in S : \A x \in S : x <= m

\* The sectioned parameters in ascending section order, equal sections in
\* input order: section 0's, then section 1's, and so on.
RECURSIVE AscendingFrom(_, _)
AscendingFrom(ps, k) ==
    IF \A i \in 1..Len(ps) : ps[i].section < k THEN <<>>
    ELSE SelectSeq(ps, LAMBDA p : p.section = k) \o AscendingFrom(ps, k + 1)

Ascending(ps) == AscendingFrom(ps, 0)

BytesOf(ps) == Flatten([i \in 1..Len(ps) |-> ps[i].value.value])

\* The value of a sequence of sectioned parameters taken in the given order:
\* it is cut at each regular (token or quoted-string) parameter; what lies
\* between two cuts is decoded as one byte string.
RECURSIVE RunsValue(_, _)
RunsValue(ps, codec) ==
    LET regs == { i \in 1..Len(ps) : ps[i].value.kind = "Regular" }
    IN  IF regs = {} THEN decode_without_bom_handling(codec, BytesOf(ps))
        ELSE LET k == CHOOSE i \in regs : \A j \in regs : i <= j
             IN  decode_without_bom_handling(codec, BytesOf(SubSeq(ps, 1, k - 1)))
                 \o ps[k].value.value
                 \o RunsValue(SubSeq(ps, k + 1, Len(ps)), codec)

\* The extended-initial parameters of ps whose label names a codec.
NamingInitials(ps) ==
    SelectSeq(ps, LAMBDA p : /\ p.value.kind = "Initial"
                              /\ p.value.encoding # NoEncoding
                              /\ LabelCodec(p.value.encoding) # "NoCodec")

-----------------------------------------------------------------------------
\* C1 (as stated): for every name with section indices, every permutation of
\* the parameter list gives the same reassembled value for that name.
C1_PermutationInvariant ==
    pc = "done" =>
        \A n \in SectionedNames(params) :
            \A f \in Permutations(1..Len(params)) :
                decode_parameter_list(Permute(params, f))[n] = result[n]

\* C1 (amended): for every name whose section indices are pairwise distinct,
\* every permutation of the parameter list gives the same reassembled value.
C1_PermutationInvariantDistinct ==
    pc = "done" =>
        \A n \in SectionedNames(params) :
            DistinctSections(Sectioned(params, n)) =>
                \A f \in Permutations(1..Len(params)) :
                    decode_parameter_list(Permute(params, f))[n] = result[n]

\* title*1="world" before title*0="hello" gives "helloworld".
C1_Witness ==
    /\ pc = "done"
    /\ params = << Parameter(NameTitle, 1, Regular(TextWorld)),
                   Parameter(NameTitle, 0, Regular(TextHello)) >>
    /\ result[NameTitle] = TextHello \o TextWorld

\* C2: a name with section indices always has an output value, which is the
\* concatenation of all its segments in ascending section order, whatever
\* gaps, repeated numbers or missing section 0 there are.
C2_SortedConcatenation ==
    pc = "done" =>
        \A n \in SectionedNames(params) :
            /\ n \in DOMAIN result
            /\ result[n] = RunsValue(Ascending(Sectioned(params, n)),
                                     CompositeCodec(composite_encoding, n))

\* A name whose sections have no 0, skip a number and repeat a number.
C2_Witness ==
    /\ pc = "done"
    /\ \E n \in SectionedNames(params) :
          LET ps == Sectioned(params, n)
          IN  /\ 0 \notin SectionsOf(ps)
              /\ 1 \notin SectionsOf(ps)
              /\ ~DistinctSections(ps)
              /\ Len(result[n]) > 0

\* C3 (as stated): decode_segments is given the codec named by the first
\* extended-initial segment of the name that names one, UTF-8 when none does.
C3_FirstInitialCharset ==
    pc = "segments" =>
        LET inits == NamingInitials(Sectioned(params, seg.name))
        IN  seg.codec = IF inits = <<>> THEN "UTF_8"
                        ELSE LabelCodec(Head(inits).value.encoding)

\* C3 (amended): decode_segments is given the codec named by the last
\* extended-initial segment of the name that names one, UTF-8 when none does.
C3_LastInitialCharset ==
    pc = "segments" =>
        LET inits == NamingInitials(Sectioned(params, seg.name))
        IN  seg.codec = IF inits = <<>> THEN "UTF_8"
                        ELSE LabelCodec(Last(inits).value.encoding)

\* title*0*=utf-8''%C3 then Title*0*=Latin1''%C3: windows-1252 is used.
C3_Witness ==
    /\ pc = "segments"
    /\ params = << Parameter(NameTitle, 0, Initial(LabelUtf8, <<195>>)),
                   Parameter(NameTitleCap, 0, Initial(LabelLatin1, <<195>>)) >>
    /\ seg.codec = "WINDOWS_1252"

\* The segments decode_segments has walked so far.
Walked == SubSeq(seg.sorted, 1, Len(seg.sorted) - Len(seg.input))

DecodedAt(d) == { i \in 1..Len(d) : d[i][2].kind = "Decoded" }

\* The bytes of the segments of d strictly between positions a and b.
Between(d, a, b) ==
    Flatten([i \in 1..(b - a - 1) |-> d[a + i][2].v])

\* The position of the last decoded segment of d before position k, or 0.
PrevDecoded(d, k) ==
    LET before == { i \in DecodedAt(d) : i < k }
    IN  IF before = {} THEN 0 ELSE SetMax(before)

\* The i-th decoded segment of d, counting from 1.
NthDecoded(d, i) ==
    CHOOSE k \in DecodedAt(d) : Cardinality({ j \in DecodedAt(d) : j <= k }) = i

\* C4: the walk is over the sorted segments; the buffer holds exactly the
\* bytes of the encoded segments since the last non-encoded one; there was
\* one flush per non-encoded segment met plus one at the end, each of the
\* whole run before it; the buffer is empty after a flush; and the output is
\* the decoded runs and the non-encoded texts in order.
C4_RunsDecodedOnce ==
    pc = "segments" \/ seg.finished =>
        LET d == Walked
            nd == Cardinality(DecodedAt(d))
            runs == [i \in 1..nd |->
                        Between(d, PrevDecoded(d, NthDecoded(d, i)), NthDecoded(d, i))]
            tail == Between(d, PrevDecoded(d, Len(d) + 1), Len(d) + 1)
            texts == [i \in 1..nd |->
                        decode_without_bom_handling(seg.codec, runs[i])
                        \o d[NthDecoded(d, i)][2].v]
        IN  /\ \A i, j \in 1..Len(seg.sorted) :
                  i < j => seg.sorted[i][1] <= seg.sorted[j][1]
            /\ seg.finished => seg.input = <<>>
            /\ seg.encoded = IF seg.finished THEN <<>> ELSE tail
            /\ seg.calls = IF seg.finished THEN Append(runs, tail) ELSE runs
            /\ seg.out = Flatten(texts) \o
                  (IF seg.finished
                   THEN decode_without_bom_handling(seg.codec, tail) ELSE <<>>)

\* title*0*=utf-8''%C3, title*1*=%A9, title*2="": C3 A9 is decoded once, as
\* one character, when the quoted-string segment is met.
C4_Witness ==
    /\ seg.finished
    /\ Len(seg.sorted) = 3
    /\ seg.calls = << <<195, 169>>, <<>> >>
    /\ seg.out = <<233>>

\* C5: a name that occurs only without section index gets its last
\* extended-initial value if it has one and else its last regular value.
C5_SimpleValue ==
    pc = "done" =>
        \A n \in UnsectionedNames(params) \ SectionedNames(params) :
            LET ps == Unsectioned(params, n)
                ext == SelectSeq(ps, LAMBDA p : p.value.kind = "Initial")
                reg == SelectSeq(ps, LAMBDA p : p.value.kind = "Regular")
            IN  /\ n \in DOMAIN result
                /\ result[n] =
                      IF ext # <<>>
                      THEN decode_without_bom_handling(
                               SimpleCodec(Last(ext).value.encoding),
                               Last(ext).value.value)
                      ELSE Last(reg).value.value

\* title*=''%C3%A9 before title=a: the extended value wins.
C5_Witness ==
    /\ pc = "done"
    /\ params = << Parameter(NameTitle, NoSection, Initial(NoEncoding, <<195, 169>>)),
                   Parameter(NameTitle, NoSection, Regular(<<97>>)) >>
    /\ result[NameTitle] = <<233>>

-----------------------------------------------------------------------------
(* nom: a parser maps its input to failure or to (leftover, output).       *)

Fail == [ok |-> FALSE, rest |-> <<>>, out |-> <<>>]

Ok(rest, out) == [ok |-> TRUE, rest |-> rest, out |-> out]

Drop(s, n) == SubSeq(s, n + 1, Len(s))

\* nom::bytes::complete::tag
tag(t, i) ==
    IF Len(i) >= Len(t) /\ SubSeq(i, 1, Len(t)) = t THEN Ok(Drop(i, Len(t)), t)
    ELSE Fail

\* The length of the longest prefix of i whose bytes all satisfy P.
PrefixLen(P(_), i) ==
    LET bad == { k \in 1..Len(i) : ~P(i[k]) }
    IN  IF bad = {} THEN Len(i)
        ELSE (CHOOSE k \in bad : \A j \in bad : k <= j) - 1

\* nom::bytes::complete::take_while1
take_while1(P(_), i) ==
    LET n == PrefixLen(P, i)
    IN  IF n = 0 THEN Fail ELSE Ok(Drop(i, n), SubSeq(i, 1, n))

\* nom::sequence::pair and its kin: the parser G goes on from the result a.
and_then(a, G(_)) == IF a.ok THEN G(a) ELSE Fail

\* nom::combinator::map: F of the output.
map(a, F(_)) == IF a.ok THEN Ok(a.rest, F(a.out)) ELSE Fail

\* nom::branch::alt of two parsers run on the same input.
alt(a, b) == IF a.ok THEN a ELSE b

\* nom::combinator::opt of a parser run on i; `none` stands for None.
opt(a, i, none) == IF a.ok THEN a ELSE Ok(i, none)

\* u8::is_ascii_graphic
is_ascii_graphic(c) == c \in 33..126

\* u8::is_ascii_hexdigit
is_ascii_hexdigit(c) == c \in 48..57 \/ c \in 65..70 \/ c \in 97..102

HexValue(c) == IF c \in 48..57 THEN c - 48
               ELSE IF c \in 65..70 THEN c - 55
               ELSE c - 87

\* rfc3461::hexpair: take(2), both hex digits, u8::from_str_radix(.., 16)
hexpair(i) ==
    IF Len(i) >= 2 /\ is_ascii_hexdigit(i[1]) /\ is_ascii_hexdigit(i[2])
    THEN Ok(Drop(i, 2), 16 * HexValue(i[1]) + HexValue(i[2]))
    ELSE Fail

-----------------------------------------------------------------------------
(* rfc2047                                                                 *)

\* The bytes of ()<>@,;:\"/[]?.=
Especials == {40, 41, 60, 62, 64, 44, 59, 58, 92, 34, 47, 91, 93, 63, 46, 61}

IsTokenChar(c) == is_ascii_graphic(c) /\ c \notin Especials

\* rfc2047::token
ew_token(i) == take_while1(IsTokenChar, i)

IsEncodedTextChar(c) == is_ascii_graphic(c) /\ c # 63

\* rfc2047::encoded_text
encoded_text(i) == take_while1(IsEncodedTextChar, i)

\* _qp_encoded_text: many0(alt((preceded(tag("="), hexpair),
\*                              map(tag("_"), |_| b' '), take1_filter(|_| true))))
RECURSIVE qp_encoded_text(_)
qp_encoded_text(i) ==
    IF i = <<>> THEN <<>>
    ELSE IF i[1] = 61 /\ hexpair(Tail(i)).ok THEN
        <<hexpair(Tail(i)).out>> \o qp_encoded_text(hexpair(Tail(i)).rest)
    ELSE IF i[1] = 95 THEN <<32>> \o qp_encoded_text(Tail(i))
    ELSE <<i[1]>> \o qp_encoded_text(Tail(i))

\* decode_qp: all_consuming(_qp_encoded_text)(input).ok(); many0 of three
\* alternatives, the last of which takes any byte, consumes all its input.
decode_qp(i) == Ok(<<>>, qp_encoded_text(i))

\* The value of a symbol of the standard base64 alphabet, -1 for other bytes.
Base64Value(c) ==
    IF c \in 65..90 THEN c - 65
    ELSE IF c \in 97..122 THEN c - 71
    ELSE IF c \in 48..57 THEN c + 4
    ELSE IF c = 43 THEN 62
    ELSE IF c = 47 THEN 63
    ELSE -1

\* The bytes of one group of four symbols whose last `pad` are '='.
Base64Quad(q, pad) ==
    LET a == Base64Value(q[1])
        b == Base64Value(q[2])
        c == IF pad >= 2 THEN 0 ELSE Base64Value(q[3])
        d == IF pad >= 1 THEN 0 ELSE Base64Value(q[4])
        all == << a * 4 + (b \div 16), (b % 16) * 16 + (c \div 4), (c % 4) * 64 + d >>
    IN  SubSeq(all, 1, 3 - pad)

\* base64::engine::general_purpose::STANDARD.decode: whole groups of four
\* symbols, canonical '=' padding in the last group only, no stray bits in
\* the last symbol.
base64_decode(i) ==
    LET n == Len(i)
        pad == IF n >= 2 /\ i[n] = 61 /\ i[n - 1] = 61 THEN 2
               ELSE IF n >= 1 /\ i[n] = 61 THEN 1
               ELSE 0
        symbolsOk == \A k \in 1..(n - pad) : Base64Value(i[k]) >= 0
        bitsOk == IF pad = 2 THEN Base64Value(i[n - 2]) % 16 = 0
                  ELSE IF pad = 1 THEN Base64Value(i[n - 1]) % 4 = 0
                  ELSE TRUE
    IN  IF n % 4 = 0 /\ symbolsOk /\ (n = 0 \/ bitsOk)
        THEN Ok(<<>>, Flatten([g \in 1..(n \div 4) |->
                 Base64Quad(SubSeq(i, 4 * g - 3, 4 * g),
                            IF g = n \div 4 THEN pad ELSE 0)]))
        ELSE Fail

\* decode_text that takes every encoding other than B for Q.
DecodeTextAllQ(encoding, text) ==
    IF encoding \in {<<98>>, <<66>>} THEN base64_decode(text) ELSE decode_qp(text)

\* decode_text that matches the upper-case letters only.
DecodeTextUpperOnly(encoding, text) ==
    IF encoding = <<81>> THEN decode_qp(text)
    ELSE IF encoding = <<66>> THEN base64_decode(text)
    ELSE Fail

\* decode_text: Some(bytes) is Ok(.., bytes), None is Fail.
decode_text(encoding, text) ==
    IF encoding \in {<<113>>, <<81>>} THEN decode_qp(text)
    ELSE IF encoding \in {<<98>>, <<66>>} THEN base64_decode(text)
    ELSE Fail

\* decode_text(encoding, text).unwrap_or_else(|| text.to_vec())
Payload(encoding, text) ==
    IF decode_text(encoding, text).ok THEN decode_text(encoding, text).out ELSE text

\* decode() with windows-1252 as the codec of unknown labels.
DecodeDefaultLatin1(charset, bytes) ==
    decode_without_bom_handling(
        IF for_label(charset) = "NoCodec" THEN "WINDOWS_1252" ELSE for_label(charset),
        bytes)

\* EncodedWord::decode
EncodedWord_decode(charset, bytes) ==
    decode_without_bom_handling(
        IF for_label(charset) = "NoCodec" THEN "UTF_8" ELSE for_label(charset),
        bytes)

-----------------------------------------------------------------------------
(* The inputs encoded_word is run on: "=?" charset "?" encoding "?" text   *)
(* "?=", every text over a small alphabet under each of a few heads, some  *)
(* of them broken or followed by more bytes.                               *)

MaxText == 4

\* The bytes of = _ w 6 k: an escape "=66", a broken escape "=w", the
\* base64 words "w6k=" (C3 A9), "ww==" (C3) and "w6==" (stray bits).
TextAlphabet == {61, 95, 119, 54, 107}

Texts == UNION { [1..n -> TextAlphabet] : n \in 0..MaxText }

\* <<charset, encoding, shape>>
Heads ==
    { << LabelUtf8, <<81>>, "ok" >>,              \* =?utf-8?Q?..?=
      << LabelUtf8, <<113>>, "trailing" >>,       \* =?utf-8?q?..?= x
      << LabelLatin1, <<66>>, "ok" >>,            \* =?Latin1?B?..?=
      << LabelBogus, <<98>>, "ok" >>,             \* =?bogus?b?..?=
      << LabelBogus, <<113>>, "ok" >>,            \* =?bogus?q?..?=
      << LabelLatin1, <<90>>, "ok" >>,            \* =?Latin1?Z?..?=
      << LabelUtf8, <<81, 80>>, "ok" >>,          \* =?utf-8?QP?..?=
      << LabelUtf8, <<66>>, "language" >>,        \* =?utf-8*en?B?..?=
      << <<>>, <<81>>, "ok" >>,                   \* =??Q?..?=
      << LabelUtf8, <<>>, "ok" >>,                \* =?utf-8??..?=
      << LabelUtf8, <<81>>, "noopen" >>,          \* =utf-8?Q?..?=
      << LabelUtf8, <<66>>, "noclose" >> }        \* =?utf-8?B?..?

Words ==
    { [charset |-> h[1], encoding |-> h[2], text |-> t, shape |-> h[3]] :
          h \in Heads, t \in Texts }

\* The bytes of a word as they stand in a header.
Written(w) ==
    (IF w.shape = "noopen" THEN <<61>> ELSE <<61, 63>>)
    \o w.charset
    \o (IF w.shape = "language" THEN <<42, 101, 110>> ELSE <<>>)
    \o <<63>> \o w.encoding \o <<63>> \o w.text
    \o (IF w.shape = "noclose" THEN <<63>>
        ELSE IF w.shape = "trailing" THEN <<63, 61, 32, 120>>
        ELSE <<63, 61>>)

-----------------------------------------------------------------------------
(* encoded_word as a machine: one step per parser of its tuple, one for    *)
(* the closure of map, and EncodedWord::decode on the word it returned.    *)

\* preceded(tag("=?"), token)
CharsetParser(i) ==
    IF tag(<<61, 63>>, i).ok THEN ew_token(tag(<<61, 63>>, i).rest) ELSE Fail

\* opt(preceded(tag("*"), token))
LanguageParser(i) ==
    IF tag(<<42>>, i).ok /\ ew_token(tag(<<42>>, i).rest).ok
    THEN ew_token(tag(<<42>>, i).rest)
    ELSE Ok(i, <<>>)

\* delimited(tag("?"), token, tag("?"))
EncodingParser(i) ==
    LET a == tag(<<63>>, i)
        t == ew_token(a.rest)
        b == tag(<<63>>, t.rest)
    IN  IF a.ok /\ t.ok /\ b.ok THEN Ok(b.rest, t.out) ELSE Fail

\* terminated(encoded_text, tag("?="))
TextParser(i) ==
    LET t == encoded_text(i)
        b == tag(<<63, 61>>, t.rest)
    IN  IF t.ok /\ b.ok THEN Ok(b.rest, t.out) ELSE Fail

\* The parser the tuple runs at control position p.
TupleParser(p, i) ==
    IF p = "ew_charset" THEN CharsetParser(i)
    ELSE IF p = "ew_language" THEN LanguageParser(i)
    ELSE IF p = "ew_encoding" THEN EncodingParser(i)
    ELSE TextParser(i)

TuplePositions == {"ew_charset", "ew_language", "ew_encoding", "ew_text"}

InitWord ==
    /\ word \in Words
    /\ header = NoHeader
    /\ cd = NoHeaderParse
    /\ ImfIdle /\ DsnIdle /\ HsIdle /\ XfIdle
    /\ ew = [NoParse EXCEPT !.input = Written(word), !.rest = Written(word)]
    /\ pc = "ew_charset"
    /\ params = <<>>
    /\ input = <<>>
    /\ simple = EmptyMap
    /\ simple_encoded = EmptyMap
    /\ composite = EmptyMap
    /\ composite_encoding = EmptyMap
    /\ composite_out = EmptyMap
    /\ todo = {}
    /\ seg = IdleSegments
    /\ result = EmptyMap

ParseCharset ==
    /\ pc = "ew_charset"
    /\ CharsetParser(ew.rest).ok
    /\ ew' = [ew EXCEPT !.rest = CharsetParser(ew.rest).rest,
                        !.charset = CharsetParser(ew.rest).out]
    /\ pc' = "ew_language"
    /\ UNCHANGED word /\ UNCHANGED notWordVars

ParseLanguage ==
    /\ pc = "ew_language"
    /\ LanguageParser(ew.rest).ok
    /\ ew' = [ew EXCEPT !.rest = LanguageParser(ew.rest).rest]
    /\ pc' = "ew_encoding"
    /\ UNCHANGED word /\ UNCHANGED notWordVars

ParseEncoding ==
    /\ pc = "ew_encoding"
    /\ EncodingParser(ew.rest).ok
    /\ ew' = [ew EXCEPT !.rest = EncodingParser(ew.rest).rest,
                        !.encoding = EncodingParser(ew.rest).out]
    /\ pc' = "ew_text"
    /\ UNCHANGED word /\ UNCHANGED notWordVars

ParseText ==
    /\ pc = "ew_text"
    /\ TextParser(ew.rest).ok
    /\ ew' = [ew EXCEPT !.rest = TextParser(ew.rest).rest,
                        !.text = TextParser(ew.rest).out]
    /\ pc' = "ew_map"
    /\ UNCHANGED word /\ UNCHANGED notWordVars

\* A parser of the tuple fails: encoded_word returns Err.
ParseError ==
    /\ pc \in TuplePositions
    /\ ~TupleParser(pc, ew.rest).ok
    /\ pc' = "error"
    /\ UNCHANGED <<word, ew>> /\ UNCHANGED notWordVars

\* The closure of map: EncodedWord { charset: decode_ascii(charset), bytes }.
BuildWord ==
    /\ pc = "ew_map"
    /\ ew' = [ew EXCEPT !.charset = decode_ascii(ew.charset),
                        !.bytes = Payload(ew.encoding, ew.text)]
    /\ pc' = "built"
    /\ UNCHANGED word /\ UNCHANGED notWordVars

\* EncodedWord::decode on the returned word.
Decode ==
    /\ pc = "built"
    /\ ew' = [ew EXCEPT !.decoded = EncodedWord_decode(ew.charset, ew.bytes)]
    /\ pc' = "decoded"
    /\ UNCHANGED word /\ UNCHANGED notWordVars

NextWord ==
    \/ ParseCharset
    \/ ParseLanguage
    \/ ParseEncoding
    \/ ParseText
    \/ ParseError
    \/ BuildWord
    \/ Decode

SpecWord == InitWord /\ [][NextWord]_vars

-----------------------------------------------------------------------------
(* Vocabulary of the claims about encoded words.                           *)

LettersQ == { <<81>>, <<113>> }

LettersB == { <<66>>, <<98>> }

Returned == pc \in {"built", "decoded"}

\* The word is written as the grammar asks: both tokens and the text are
\* non-empty, and the delimiters are in place.
WellWritten ==
    /\ word.shape \in {"ok", "trailing", "language"}
    /\ word.charset # <<>>
    /\ word.encoding # <<>>
    /\ word.text # <<>>

\* Some '=' of t is not followed by two hex digits.
HasBrokenEscape(t) ==
    \E i \in 1..Len(t) :
        /\ t[i] = 61
        /\ ~(i + 2 <= Len(t) /\ is_ascii_hexdigit(t[i + 1]) /\ is_ascii_hexdigit(t[i + 2]))

\* The Q payload of t, position by position: an '=' with two hex digits
\* after it stands for their byte and hides them, '_' stands for a space.
QReference(t) ==
    LET starts == { i \in 1..Len(t) :
                      /\ t[i] = 61 /\ i + 2 <= Len(t)
                      /\ is_ascii_hexdigit(t[i + 1]) /\ is_ascii_hexdigit(t[i + 2]) }
        hidden == { i \in 1..Len(t) : i - 1 \in starts \/ i - 2 \in starts }
        kept == SelectSeq([i \in 1..Len(t) |-> i], LAMBDA i : i \notin hidden)
    IN  [k \in 1..Len(kept) |->
            IF kept[k] \in starts
            THEN 16 * HexValue(t[kept[k] + 1]) + HexValue(t[kept[k] + 2])
            ELSE IF t[kept[k]] = 95 THEN 32
            ELSE t[kept[k]]]

\* Well-formed UTF-8 (Unicode, table 3-7): the length a lead byte announces
\* and the range of the byte after it.
Utf8Length(b1) ==
    IF b1 <= 127 THEN 1
    ELSE IF b1 \in 194..223 THEN 2
    ELSE IF b1 \in 224..239 THEN 3
    ELSE IF b1 \in 240..244 THEN 4
    ELSE 0

Utf8Second(b1) ==
    (IF b1 = 224 THEN 160 ELSE IF b1 = 240 THEN 144 ELSE 128)
    .. (IF b1 = 237 THEN 159 ELSE IF b1 = 244 THEN 143 ELSE 191)

\* How many bytes at the head of b are the start of a well-formed sequence.
Utf8Good(b) ==
    LET ok(k) == /\ k <= Len(b)
                 /\ k <= Utf8Length(b[1])
                 /\ \A j \in 2..k : b[j] \in (IF j = 2 THEN Utf8Second(b[1]) ELSE 128..191)
    IN  IF Utf8Length(b[1]) = 0 THEN 0
        ELSE CHOOSE k \in 1..4 : ok(k) /\ (k = 4 \/ ~ok(k + 1))

Utf8Scalar(b, n) ==
    IF n = 1 THEN b[1]
    ELSE IF n = 2 THEN (b[1] - 192) * 64 + (b[2] - 128)
    ELSE IF n = 3 THEN (b[1] - 224) * 4096 + (b[2] - 128) * 64 + (b[3] - 128)
    ELSE (b[1] - 240) * 262144 + (b[2] - 128) * 4096 + (b[3] - 128) * 64 + (b[4] - 128)

\* Lossy UTF-8: a well-formed sequence is its scalar value, every maximal
\* ill-formed piece is one U+FFFD.
RECURSIVE Utf8Lossy(_)
Utf8Lossy(b) ==
    IF b = <<>> THEN <<>>
    ELSE LET g == Utf8Good(b)
         IN  IF g > 0 /\ g = Utf8Length(b[1])
             THEN <<Utf8Scalar(b, g)>> \o Utf8Lossy(Drop(b, g))
             ELSE <<65533>> \o Utf8Lossy(Drop(b, IF g = 0 THEN 1 ELSE g))

IsScalarValue(c) == c \in 0..55295 \/ c \in 57344..1114111

-----------------------------------------------------------------------------
\* C6: a well-written word whose encoding is not Q, q, B or b parses, and
\* its payload is the encoded text, byte for byte.
C6_UnknownEncodingVerbatim ==
    WellWritten /\ word.encoding \notin LettersQ \cup LettersB =>
        /\ pc # "error"
        /\ Returned => ew.encoding = word.encoding /\ ew.bytes = word.text

\* =?Latin1?Z?_=66?= keeps "_=66".
C6_Witness ==
    /\ pc = "built"
    /\ ew.encoding = <<90>>
    /\ word.text = <<95, 61, 54, 54>>
    /\ ew.bytes = <<95, 61, 54, 54>>

\* C7: a Q text with an '=' that is not followed by two hex digits, and a B
\* text that is not valid base64, give the whole encoded text as payload.
C7_MalformedPayloadVerbatim ==
    Returned =>
        /\ ew.encoding \in LettersQ /\ HasBrokenEscape(ew.text) => ew.bytes = ew.text
        /\ ew.encoding \in LettersB /\ ~base64_decode(ew.text).ok => ew.bytes = ew.text

\* C8: Q and q alike decode the text: '_' is a space, '=XX' is the byte XX,
\* every other byte is kept, in order; B and b alike decode base64.
C8_QDecoding ==
    Returned =>
        /\ ew.encoding \in LettersQ => ew.bytes = QReference(ew.text)
        /\ ew.encoding \in LettersB /\ base64_decode(ew.text).ok =>
               ew.bytes = base64_decode(ew.text).out

\* =?bogus?q?_=66?= has the payload " f".
C8_Witness ==
    /\ pc = "built"
    /\ ew.encoding = <<113>>
    /\ ew.text = <<95, 61, 54, 54>>
    /\ ew.bytes = <<32, 102>>

\* C9: decode() returns text (a sequence of scalar values) for every label
\* and payload, and the lossy UTF-8 reading of the payload when the label
\* names no charset.
C9_DecodeTotal ==
    pc = "decoded" =>
        /\ \A i \in 1..Len(ew.decoded) : IsScalarValue(ew.decoded[i])
        /\ for_label(ew.charset) = "NoCodec" => ew.decoded = Utf8Lossy(ew.bytes)

\* =?bogus?b?w6k=?= : the payload C3 A9 is read as UTF-8.
C9_Witness ==
    /\ pc = "decoded"
    /\ ew.charset = LabelBogus
    /\ ew.bytes = <<195, 169>>
    /\ ew.decoded = <<233>>

-----------------------------------------------------------------------------
(* rfc5322: folding whitespace, comments and quoted-strings, under the     *)
(* policy P ("Legacy" or "Intl").  A character parser gives the character  *)
(* as its code point.                                                      *)

IsWsp(c) == c \in {32, 9}

\* rfc5234::wsp
wsp(i) == IF i # <<>> /\ IsWsp(i[1]) THEN Ok(Tail(i), i[1]) ELSE Fail

\* recognize_many1(wsp) on j, of which m bytes are white space, after the
\* optional folded line `lead`.
FwsTail(lead, j, m) == IF m = 0 THEN Fail ELSE Ok(Drop(j, m), lead \o SubSeq(j, 1, m))

\* fws: pair(opt(terminated(recognize_many0(wsp), crlf)), recognize_many1(wsp));
\* the output is the white space without the CRLF.
fws(i) ==
    LET n == PrefixLen(IsWsp, i)
    IN  IF tag(<<13, 10>>, Drop(i, n)).ok
        THEN FwsTail(SubSeq(i, 1, n), Drop(i, n + 2), PrefixLen(IsWsp, Drop(i, n + 2)))
        ELSE FwsTail(<<>>, i, n)

\* ofws: map(opt(fws), |i| i.unwrap_or(""))
ofws(i) == opt(fws(i), i, <<>>)

\* utf8_non_ascii: the bytes of exactly one UTF-8 character of 4, 3 or 2 bytes.
utf8_non_ascii(i) ==
    LET n == Utf8Length(i[1])
    IN  IF i # <<>> /\ n >= 2 /\ Utf8Good(i) = n
        THEN Ok(Drop(i, n), Utf8Scalar(i, n))
        ELSE Fail

\* _8bit_char
eight_bit_char(i) == IF i # <<>> /\ i[1] >= 128 THEN Ok(Tail(i), 65533) ELSE Fail

\* The predicates of take1_filter in Legacy::vchar, ctext, qtext, atext and dtext.
AsciiClass(class, c) ==
    /\ is_ascii_graphic(c)
    /\ class = "ctext" => c \notin {40, 41, 92}
    /\ class = "qtext" => c \notin {34, 92}
    /\ class = "atext" => c \notin {34, 40, 41, 44, 46, 58, 59, 60, 62, 64, 91, 92, 93}
    /\ class = "dtext" => c \notin {91, 92, 93}

\* P::vchar, P::ctext, P::qtext, P::atext and P::dtext
PolicyChar(P, class, i) ==
    IF i # <<>> /\ AsciiClass(class, i[1]) THEN Ok(Tail(i), i[1])
    ELSE alt(IF P = "Intl" THEN utf8_non_ascii(i) ELSE Fail,
             IF class = "qtext" THEN eight_bit_char(i) ELSE Fail)

\* many0 of a policy character
RECURSIVE PolicyMany0(_, _, _)
PolicyMany0(P, class, i) ==
    opt(and_then(PolicyChar(P, class, i), LAMBDA c : PolicyMany0(P, class, c.rest)),
        i, <<>>)

\* recognize_many1 of a policy character: the bytes it went over.
recognize_many1(P, class, i) ==
    and_then(PolicyChar(P, class, i), LAMBDA c :
    and_then(PolicyMany0(P, class, c.rest), LAMBDA m :
    Ok(m.rest, SubSeq(i, 1, Len(i) - Len(m.rest)))))

\* quoted_pair: preceded(tag("\\"), alt((P::vchar, map(wsp, char::from))))
quoted_pair(P, i) ==
    and_then(tag(<<92>>, i), LAMBDA b : alt(PolicyChar(P, "vchar", b.rest), wsp(b.rest)))

\* CommentContent::Text, CommentContent::Comment and CommentContent::QP
CommentText(t) == [kind |-> "Text", text |-> t]

CommentNested(items) == [kind |-> "Comment", items |-> items]

CommentQP(c) == [kind |-> "QP", char |-> c]

\* push_text without its test: the mutation that pushes empty text too
PushTextAlways(acc, out) == Append(out, CommentText(acc))

\* push_text of _concat_comment: the accumulated text, unless empty
push_text(acc, out) == IF acc # <<>> THEN Append(out, CommentText(acc)) ELSE out

\* The loop of _concat_comment over what is left of `comments`
RECURSIVE ConcatCommentLoop(_, _, _)
ConcatCommentLoop(comments, out, acc) ==
    IF comments = <<>> THEN push_text(acc, out)
    ELSE IF Head(comments).kind = "Text"
    THEN ConcatCommentLoop(Tail(comments), out, acc \o Head(comments).text)
    ELSE IF Head(comments).kind = "QP"
    THEN ConcatCommentLoop(Tail(comments), out, Append(acc, Head(comments).char))
    ELSE ConcatCommentLoop(Tail(comments), Append(push_text(acc, out), Head(comments)), <<>>)

\* _concat_comment
concat_comment(comments) == ConcatCommentLoop(comments, <<>>, <<>>)

\* comment and ccontent.  CommentBody is fold_many0(pair(ofws, ccontent)),
\* which pushes Text(fws) and the content of each pair.
RECURSIVE comment(_, _)
RECURSIVE CommentBody(_, _)
ccontent(P, i) ==
    alt(map(recognize_many1(P, "ctext", i), LAMBDA ct : CommentText(Utf8Lossy(ct))),
        alt(map(quoted_pair(P, i), LAMBDA c : CommentQP(c)),
            map(comment(P, i), LAMBDA c : CommentNested(c))))

\* pair(ofws, ccontent)
CommentPair(P, i) ==
    and_then(ofws(i), LAMBDA w :
    map(ccontent(P, w.rest), LAMBDA c : <<CommentText(w.out), c>>))

CommentBody(P, i) ==
    opt(and_then(CommentPair(P, i), LAMBDA c :
        map(CommentBody(P, c.rest), LAMBDA r : c.out \o r)), i, <<>>)

\* The end of comment: ofws, tag(")"); the output is the Text of ofws
CommentClose(i) ==
    and_then(ofws(i), LAMBDA w :
    map(tag(<<41>>, w.rest), LAMBDA t : CommentText(w.out)))

comment(P, i) ==
    and_then(tag(<<40>>, i), LAMBDA o :
    and_then(CommentBody(P, o.rest), LAMBDA b :
    map(CommentClose(b.rest), LAMBDA e : concat_comment(Append(b.out, e)))))

\* many0(pair(ofws, comment))
RECURSIVE CommentsMany0(_, _)
CommentsMany0(P, i) ==
    opt(and_then(comment(P, ofws(i).rest), LAMBDA c : CommentsMany0(P, c.rest)), i, <<>>)

\* cfws: alt((recognize(pair(many1(pair(ofws, comment)), ofws)), recognize(fws)))
cfws(P, i) ==
    alt(and_then(comment(P, ofws(i).rest), LAMBDA c :
        and_then(CommentsMany0(P, c.rest), LAMBDA m :
        ofws(m.rest))),
        fws(i))

\* rfc2047::encoded_word as one function.
encoded_word(i) ==
    and_then(CharsetParser(i), LAMBDA c :
    and_then(EncodingParser(LanguageParser(c.rest).rest), LAMBDA e :
    map(TextParser(e.rest), LAMBDA t :
        [charset |-> decode_ascii(c.out), bytes |-> Payload(e.out, t)])))

\* The cargo feature "quoted-string-rfc2047" (on in the default build).
QuotedStringRfc2047 == TRUE

\* QContent: its kind and the text concat_qs appends for it.
QContent(kind, text) == [kind |-> kind, text |-> text]

\* qcontent: an encoded word (with the feature), a run of qtext taken through
\* String::from_utf8_lossy, or a quoted-pair.
qcontent(P, i) ==
    alt(IF QuotedStringRfc2047
        THEN map(encoded_word(i), LAMBDA w :
                 QContent("EncodedWord", EncodedWord_decode(w.charset, w.bytes)))
        ELSE Fail,
    alt(map(recognize_many1(P, "qtext", i), LAMBDA q :
            QContent("Literal", Utf8Decode(q, 0, 0, 128, 191))),
        map(quoted_pair(P, i), LAMBDA c : QContent("QP", <<c>>))))

\* One turn of the loop of _inner_quoted_string: what is pushed for (ws, cont)
\* when out.last() is of kind `last` ("" for None).
\* _inner_quoted_string with the first arm of the match left out: the white
\* space between two encoded words is kept.
QPushKeepAll(last, ws, cont) ==
    (IF ws = <<>> THEN <<>> ELSE <<QContent("Literal", ws)>>) \o <<cont>>

QPush(last, ws, cont) ==
    (IF (cont.kind = "EncodedWord" /\ last = "EncodedWord") \/ ws = <<>> THEN <<>>
     ELSE <<QContent("Literal", ws)>>) \o <<cont>>

\* many0(pair(opt(fws), qcontent)) with that loop folded in.
RECURSIVE QContents(_, _, _)
QContents(P, i, last) ==
    opt(and_then(ofws(i), LAMBDA ws :
        and_then(qcontent(P, ws.rest), LAMBDA c :
        map(QContents(P, c.rest, c.out.kind), LAMBDA r :
            QPush(last, ws.out, c.out) \o r))),
        i, <<>>)

\* _inner_quoted_string
inner_quoted_string(P, i) ==
    and_then(tag(<<34>>, i), LAMBDA o :
    and_then(QContents(P, o.rest, ""), LAMBDA a :
    and_then(ofws(a.rest), LAMBDA b :
    map(tag(<<34>>, b.rest), LAMBDA c :
        a.out \o (IF b.out = <<>> THEN <<>> ELSE <<QContent("Literal", b.out)>>)))))

\* concat_qs
concat_qs(qc) == Flatten([k \in 1..Len(qc) |-> qc[k].text])

\* quoted_string: delimited(opt(cfws), _inner_quoted_string, opt(cfws))
quoted_string(P, i) ==
    and_then(inner_quoted_string(P, opt(cfws(P, i), i, <<>>).rest), LAMBDA q :
    Ok(opt(cfws(P, q.rest), q.rest, <<>>).rest, concat_qs(q.out)))

-----------------------------------------------------------------------------
(* rfc2231: the grammar of a parameter list                                *)

\* The characters token leaves out (the tspecials).
TSpecials == Especials \ {46}

IsMimeTokenChar(c) == is_ascii_graphic(c) /\ c \notin TSpecials

\* rfc2231::token
token(i) == take_while1(IsMimeTokenChar, i)

is_attribute_char(c) == IsMimeTokenChar(c) /\ c \notin {42, 39, 37}

attribute_char(i) == IF i # <<>> /\ is_attribute_char(i[1]) THEN Ok(Tail(i), i[1]) ELSE Fail

attribute(i) == take_while1(is_attribute_char, i)

IsDigit(c) == c \in 48..57

\* str::parse::<u32> of at most 8 digits
RECURSIVE DecimalValue(_)
DecimalValue(d) ==
    IF d = <<>> THEN 0 ELSE 10 * DecimalValue(Front(d)) + (Last(d) - 48)

initial_section(i) == map(tag(<<42, 48>>, i), LAMBDA t : 0)

\* other_sections with take_while1 in place of take_while_m_n(1, 8, ..): the
\* mutation that reads digits without a limit.
OtherSectionsUnbounded(i) ==
    LET n == PrefixLen(IsDigit, Tail(i))
    IN  IF tag(<<42>>, i).ok /\ n >= 1 /\ i[2] # 48
        THEN Ok(Drop(i, n + 1), DecimalValue(SubSeq(i, 2, n + 1)))
        ELSE Fail

\* preceded(tag("*"), verify(take_while_m_n(1, 8, is_ascii_digit), |x| x[0] != b'0'))
other_sections(i) ==
    LET n == IF PrefixLen(IsDigit, Tail(i)) > 8 THEN 8 ELSE PrefixLen(IsDigit, Tail(i))
    IN  IF tag(<<42>>, i).ok /\ n >= 1 /\ i[2] # 48
        THEN Ok(Drop(i, n + 1), DecimalValue(SubSeq(i, 2, n + 1)))
        ELSE Fail

section(i) == alt(initial_section(i), other_sections(i))

\* _equals: tuple((ofws, tag("="), ofws))
equals(i) == and_then(tag(<<61>>, ofws(i).rest), LAMBDA t : ofws(t.rest))

\* value: a token, else a quoted-string read with the Intl policy.
value(i) == alt(token(i), quoted_string("Intl", i))

\* Name { name, section }
Name(n, s) == [name |-> n, section |-> s]

regular_parameter_name(i) ==
    and_then(attribute(i), LAMBDA a :
    map(opt(section(a.rest), a.rest, NoSection), LAMBDA s : Name(a.out, s)))

regular_parameter(i) ==
    and_then(regular_parameter_name(i), LAMBDA n :
    and_then(equals(n.rest), LAMBDA e :
    map(value(e.rest), LAMBDA v : Parameter(n.out.name, n.out.section, Regular(v)))))

ext_octet(i) == and_then(tag(<<37>>, i), LAMBDA p : hexpair(p.rest))

\* extended_other_values: many0(alt((ext_octet, attribute_char)))
RECURSIVE extended_other_values(_)
extended_other_values(i) ==
    opt(and_then(alt(ext_octet(i), attribute_char(i)), LAMBDA o :
        map(extended_other_values(o.rest), LAMBDA r : <<o.out>> \o r)),
        i, <<>>)

\* terminated(opt(attribute), tag("'")): None is the empty name.
QuoteField(i) ==
    and_then(opt(attribute(i), i, NoEncoding), LAMBDA a :
    map(tag(<<39>>, a.rest), LAMBDA q : a.out))

extended_initial_value(i) ==
    and_then(QuoteField(i), LAMBDA enc :
    and_then(QuoteField(enc.rest), LAMBDA lang :
    map(extended_other_values(lang.rest), LAMBDA v : Initial(enc.out, v))))

extended_initial_name(i) ==
    and_then(attribute(i), LAMBDA a :
    and_then(opt(initial_section(a.rest), a.rest, NoSection), LAMBDA s :
    map(tag(<<42>>, s.rest), LAMBDA t : Name(a.out, s.out))))

\* extended_other_names with opt(other_sections): the mutation that takes a
\* continuation value under a name without section.
ExtendedOtherNamesOptional(i) ==
    and_then(attribute(i), LAMBDA a :
    and_then(opt(other_sections(a.rest), a.rest, NoSection), LAMBDA s :
    map(tag(<<42>>, s.rest), LAMBDA t : Name(a.out, s.out))))

extended_other_names(i) ==
    and_then(attribute(i), LAMBDA a :
    and_then(other_sections(a.rest), LAMBDA s :
    map(tag(<<42>>, s.rest), LAMBDA t : Name(a.out, s.out))))

extended_parameter(i) ==
    alt(and_then(extended_initial_name(i), LAMBDA n :
        and_then(equals(n.rest), LAMBDA e :
        map(extended_initial_value(e.rest), LAMBDA v :
            Parameter(n.out.name, n.out.section, v)))),
        and_then(extended_other_names(i), LAMBDA n :
        and_then(equals(n.rest), LAMBDA e :
        map(extended_other_values(e.rest), LAMBDA v :
            Parameter(n.out.name, n.out.section, Other(v))))))

parameter(i) == alt(regular_parameter(i), extended_parameter(i))

\* many0(preceded(pair(tag(";"), ofws), parameter))
RECURSIVE ParametersMany0(_)
ParametersMany0(i) ==
    opt(and_then(tag(<<59>>, i), LAMBDA s :
        and_then(parameter(ofws(s.rest).rest), LAMBDA p :
        map(ParametersMany0(p.rest), LAMBDA r : <<p.out>> \o r))),
        i, <<>>)

\* _parameter_list: the parameters, then pair(opt(tag(";")), opt(crlf))
parameter_list(i) ==
    and_then(ParametersMany0(i), LAMBDA m :
    and_then(opt(tag(<<59>>, m.rest), m.rest, <<>>), LAMBDA a :
    map(opt(tag(<<13, 10>>, a.rest), a.rest, <<>>), LAMBDA b : m.out)))

-----------------------------------------------------------------------------
(* rfc2231::content_disposition                                            *)

\* nom::bytes::complete::tag_no_case: t is given in lower case.
tag_no_case(t, i) ==
    IF Len(i) >= Len(t) /\ to_lowercase(SubSeq(i, 1, Len(t))) = t
    THEN Ok(Drop(i, Len(t)), SubSeq(i, 1, Len(t)))
    ELSE Fail

\* _x_token: preceded(tag_no_case("x-"), token)
x_token(i) == and_then(tag_no_case(<<120, 45>>, i), LAMBDA x : token(x.rest))

KwInline == <<105, 110, 108, 105, 110, 101>>

KwAttachment == <<97, 116, 116, 97, 99, 104, 109, 101, 110, 116>>

\* ContentDisposition
Disposition(kind, text) == [kind |-> kind, text |-> text]

\* _disposition: the first alternative that matches at the head of the input.
disposition(i) ==
    alt(map(tag_no_case(KwInline, i), LAMBDA t : Disposition("Inline", <<>>)),
    alt(map(tag_no_case(KwAttachment, i), LAMBDA t : Disposition("Attachment", <<>>)),
    alt(map(x_token(i), LAMBDA x : Disposition("Extended", x)),
        map(token(i), LAMBDA t : Disposition("Token", t)))))

\* The whole function: the disposition, the decoded parameters and the leftover.
content_disposition(i) ==
    and_then(disposition(ofws(i).rest), LAMBDA d :
    map(parameter_list(ofws(d.rest).rest), LAMBDA p :
        [disposition |-> d.out, params |-> decode_parameter_list(p)]))

(* The headers content_disposition is run on: optional leading white space, *)
(* a leading token written as a stem and up to MaxSuffix more token         *)
(* characters, and what follows the token.                                  *)

MaxSuffix == 2

\* a - .
SuffixAlphabet == {97, 45, 46}

Suffixes == UNION { [1..n -> SuffixAlphabet] : n \in 0..MaxSuffix }

\* "", "inline", "Inline", "ATTACHMENT", "x-", "X-", "form"
Stems ==
    { <<>>, KwInline, <<73, 110, 108, 105, 110, 101>>,
      <<65, 84, 84, 65, 67, 72, 77, 69, 78, 84>>,
      <<120, 45>>, <<88, 45>>, <<102, 111, 114, 109>> }

\* "", ";", CRLF, " ; a=b", ";a*=utf-8''%C3%A9", ";a*0=b;a*1=c",
\* ";a="b (c) =?utf-8?q?=41?=" x"
Tails ==
    { <<>>, <<59>>, <<13, 10>>,
      <<32, 59, 32, 97, 61, 98>>,
      <<59, 97, 42, 61, 117, 116, 102, 45, 56, 39, 39, 37, 67, 51, 37, 65, 57>>,
      <<59, 97, 42, 48, 61, 98, 59, 97, 42, 49, 61, 99>>,
      <<59, 97, 61, 34, 98, 32, 40, 99, 41, 32, 61, 63, 117, 116, 102, 45, 56,
        63, 113, 63, 61, 52, 49, 63, 61, 34, 32, 120>> }

Headers ==
    { [lead |-> l, token |-> s \o x, tail |-> t] :
        l \in { <<>>, <<32>> }, s \in Stems, x \in Suffixes, t \in Tails }

HeaderBytes(h) == h.lead \o h.token \o h.tail

(* content_disposition step by step: pair(delimited(ofws, _disposition,    *)
(* ofws), _parameter_list), then the closure of map.                       *)

InitDisposition ==
    /\ header \in Headers
    /\ cd = [NoHeaderParse EXCEPT !.input = HeaderBytes(header),
                                  !.rest = HeaderBytes(header)]
    /\ pc = "cd_lead"
    /\ params = <<>>
    /\ input = <<>>
    /\ simple = EmptyMap
    /\ simple_encoded = EmptyMap
    /\ composite = EmptyMap
    /\ composite_encoding = EmptyMap
    /\ composite_out = EmptyMap
    /\ todo = {}
    /\ seg = IdleSegments
    /\ result = EmptyMap
    /\ word = NoWord
    /\ ew = NoParse
    /\ ImfIdle /\ DsnIdle /\ HsIdle /\ XfIdle

LeadingOfws ==
    /\ pc = "cd_lead"
    /\ cd' = [cd EXCEPT !.rest = ofws(cd.rest).rest]
    /\ pc' = "cd_disposition"
    /\ UNCHANGED header /\ UNCHANGED notDispositionVars

ParseDisposition ==
    /\ pc = "cd_disposition"
    /\ LET d == disposition(cd.rest)
       IN  /\ d.ok
           /\ cd' = [cd EXCEPT !.rest = d.rest, !.disposition = d.out]
    /\ pc' = "cd_trail"
    /\ UNCHANGED header /\ UNCHANGED notDispositionVars

DispositionError ==
    /\ pc = "cd_disposition"
    /\ ~disposition(cd.rest).ok
    /\ pc' = "cd_error"
    /\ UNCHANGED <<header, cd>> /\ UNCHANGED notDispositionVars

TrailingOfws ==
    /\ pc = "cd_trail"
    /\ cd' = [cd EXCEPT !.rest = ofws(cd.rest).rest]
    /\ pc' = "cd_params"
    /\ UNCHANGED header /\ UNCHANGED notDispositionVars

ParseParameterList ==
    /\ pc = "cd_params"
    /\ LET p == parameter_list(cd.rest)
       IN  cd' = [cd EXCEPT !.rest = p.rest, !.params = p.out]
    /\ pc' = "cd_map"
    /\ UNCHANGED header /\ UNCHANGED notDispositionVars

\* The closure of map: (disp, decode_parameter_list(p)).
MapDisposition ==
    /\ pc = "cd_map"
    /\ cd' = [cd EXCEPT !.out = decode_parameter_list(cd.params)]
    /\ pc' = "cd_done"
    /\ UNCHANGED header /\ UNCHANGED notDispositionVars

NextDisposition ==
    \/ LeadingOfws
    \/ ParseDisposition
    \/ DispositionError
    \/ TrailingOfws
    \/ ParseParameterList
    \/ MapDisposition

SpecDisposition == InitDisposition /\ [][NextDisposition]_vars

-----------------------------------------------------------------------------
(* Vocabulary of the claim about content_disposition.                      *)

\* The disposition of a token read as a whole, without regard to case.
Classify(t) ==
    IF to_lowercase(t) = KwInline THEN Disposition("Inline", <<>>)
    ELSE IF to_lowercase(t) = KwAttachment THEN Disposition("Attachment", <<>>)
    ELSE IF Len(t) >= 2 /\ to_lowercase(SubSeq(t, 1, 2)) = <<120, 45>>
    THEN Disposition("Extended", Drop(t, 2))
    ELSE Disposition("Token", t)

DispositionRead == pc \in {"cd_trail", "cd_params", "cd_map", "cd_done"}

-----------------------------------------------------------------------------
\* C10: a header whose leading token is not empty parses, and its
\* disposition is the one of the whole token: Inline for "inline",
\* Attachment for "attachment", Extended(rest) after "x-", else Token(token).
C10_WholeTokenClassified ==
    header.token # <<>> =>
        /\ pc # "cd_error"
        /\ DispositionRead => cd.disposition = Classify(header.token)

-----------------------------------------------------------------------------
(* rfc5322::display_name                                                   *)

\* opt(cfws): what is left after it.
skip_cfws(P, i) == opt(cfws(P, i), i, <<>>).rest

\* atom: delimited(opt(cfws), recognize_many1(P::atext), opt(cfws))
atom(P, i) ==
    and_then(recognize_many1(P, "atext", skip_cfws(P, i)), LAMBDA a :
    Ok(skip_cfws(P, a.rest), a.out))

\* _padded_encoded_word
padded_encoded_word(P, i) ==
    and_then(encoded_word(skip_cfws(P, i)), LAMBDA w : Ok(skip_cfws(P, w.rest), w.out))

\* Text::Atom(&str) and Text::Literal(String)
Text(kind, text) == [kind |-> kind, text |-> text]

\* word: an encoded word, else an atom, else a quoted-string.
rfc5322_word(P, i) ==
    alt(map(padded_encoded_word(P, i), LAMBDA w :
            Text("Literal", EncodedWord_decode(w.charset, w.bytes))),
    alt(map(atom(P, i), LAMBDA x : Text("Atom", Utf8Decode(x, 0, 0, 128, 191))),
        map(quoted_string(P, i), LAMBDA q : Text("Literal", q))))

\* Peekable::peek: <<>> for None, else the next item in a tuple.
peek(iter) == IF iter = <<>> THEN <<>> ELSE <<Head(iter)>>

\* One turn of the loop of _concat_atom_and_qs on (cur, iter.peek()): what is
\* pushed on out.
ConcatPush(cur, next) ==
    IF cur.kind = "Atom" /\ next # <<>> THEN cur.text \o <<32>>
    ELSE IF next # <<>> /\ next[1].kind = "Atom" THEN next[1].text \o <<32>>
    ELSE cur.text

\* _concat_atom_and_qs
RECURSIVE concat_atom_and_qs(_)
concat_atom_and_qs(ws) ==
    IF ws = <<>> THEN <<>>
    ELSE ConcatPush(Head(ws), peek(Tail(ws))) \o concat_atom_and_qs(Tail(ws))

\* many0(word)
RECURSIVE WordsMany0(_, _)
WordsMany0(P, i) ==
    opt(and_then(rfc5322_word(P, i), LAMBDA w :
        map(WordsMany0(P, w.rest), LAMBDA r : <<w.out>> \o r)),
        i, <<>>)

\* display_name: map(many1(word), _concat_atom_and_qs)
display_name(P, i) ==
    and_then(rfc5322_word(P, i), LAMBDA w :
    map(WordsMany0(P, w.rest), LAMBDA r : concat_atom_and_qs(<<w.out>> \o r)))

(* The names display_name is run on: up to MaxWords words, each an atom, a *)
(* quoted-string or an encoded word followed by a space, then a tail.      *)

MaxWords == 3

\* ab, c, "q r", "", =?utf-8?q?e=41?=, with the text each stands for
WrittenWords ==
    { [kind |-> "Atom", bytes |-> <<97, 98, 32>>, text |-> <<97, 98>>],
      [kind |-> "Atom", bytes |-> <<99, 32>>, text |-> <<99>>],
      [kind |-> "Quoted", bytes |-> <<34, 113, 32, 114, 34, 32>>, text |-> <<113, 32, 114>>],
      [kind |-> "Quoted", bytes |-> <<34, 34, 32>>, text |-> <<>>],
      [kind |-> "Encoded", bytes |-> <<61, 63, 117, 116, 102, 45, 56, 63, 113, 63, 101, 61, 52, 49, 63, 61, 32>>, text |-> <<101, 65>>] }

\* "", "<", ":"
NameTails == { <<>>, <<60>>, <<58>> }

Names ==
    { [fn |-> "display_name", policy |-> P, words |-> w, tail |-> t] :
        P \in {"Legacy", "Intl"},
        w \in UNION { [1..n -> WrittenWords] : n \in 0..MaxWords },
        t \in NameTails }

NameBytes(n) == Flatten([k \in 1..Len(n.words) |-> n.words[k].bytes]) \o n.tail

(* display_name step by step: the loop of many1(word), then the loop of    *)
(* _concat_atom_and_qs over the words.                                     *)

InitName ==
    /\ imf \in Names
    /\ run = [input |-> NameBytes(imf), rest |-> NameBytes(imf),
              words |-> <<>>, iter |-> <<>>, out |-> <<>>]
    /\ pc = "dn_words"
    /\ params = <<>>
    /\ input = <<>>
    /\ simple = EmptyMap
    /\ simple_encoded = EmptyMap
    /\ composite = EmptyMap
    /\ composite_encoding = EmptyMap
    /\ composite_out = EmptyMap
    /\ todo = {}
    /\ seg = IdleSegments
    /\ result = EmptyMap
    /\ word = NoWord
    /\ ew = NoParse
    /\ header = NoHeader
    /\ cd = NoHeaderParse
    /\ DsnIdle /\ HsIdle /\ XfIdle

\* many1: one more word.
NameWord ==
    /\ pc = "dn_words"
    /\ rfc5322_word(imf.policy, run.rest).ok
    /\ run' = [run EXCEPT !.rest = rfc5322_word(imf.policy, run.rest).rest,
                          !.words = Append(@, rfc5322_word(imf.policy, run.rest).out)]
    /\ UNCHANGED <<imf, pc>> /\ UNCHANGED notImfVars

\* many1: word fails after at least one word; the closure of map starts.
NameWordsEnd ==
    /\ pc = "dn_words"
    /\ ~rfc5322_word(imf.policy, run.rest).ok
    /\ run.words # <<>>
    /\ run' = [run EXCEPT !.iter = run.words]
    /\ pc' = "dn_concat"
    /\ UNCHANGED imf /\ UNCHANGED notImfVars

\* many1: no word at all.
NameError ==
    /\ pc = "dn_words"
    /\ ~rfc5322_word(imf.policy, run.rest).ok
    /\ run.words = <<>>
    /\ pc' = "dn_error"
    /\ UNCHANGED <<imf, run>> /\ UNCHANGED notImfVars

\* while let Some(cur) = iter.next()
NameConcat ==
    /\ pc = "dn_concat"
    /\ run.iter # <<>>
    /\ run' = [run EXCEPT !.iter = Tail(@),
                          !.out = @ \o ConcatPush(Head(run.iter), peek(Tail(run.iter)))]
    /\ UNCHANGED <<imf, pc>> /\ UNCHANGED notImfVars

NameReturn ==
    /\ pc = "dn_concat"
    /\ run.iter = <<>>
    /\ pc' = "dn_done"
    /\ UNCHANGED <<imf, run>> /\ UNCHANGED notImfVars

NextName ==
    \/ NameWord
    \/ NameWordsEnd
    \/ NameError
    \/ NameConcat
    \/ NameReturn

SpecName == InitName /\ [][NextName]_vars

-----------------------------------------------------------------------------
(* Vocabulary of the claim about display names.                            *)

\* The name as the claim describes it: the text of every word in order, one
\* space after each atom that is followed by another word, none between two
\* words that are not atoms; `sp` says, for each word that is not an atom and
\* is followed by an atom, whether a space follows it.
NameReference(ws, sp) ==
    Flatten([k \in 1..Len(ws) |->
        ws[k].text \o
        (IF k = Len(ws) THEN <<>>
         ELSE IF ws[k].kind = "Atom" THEN <<32>>
         ELSE IF ws[k + 1].kind = "Atom" /\ sp[k] THEN <<32>>
         ELSE <<>>)])

-----------------------------------------------------------------------------
\* C11: the display name returned for words written one after the other is
\* the text of every word once and in order, with a space after each atom
\* that another word follows and none between two words that are not atoms.
C11_NameOfWords ==
    pc = "dn_done" =>
        \E sp \in [1..Len(imf.words) -> BOOLEAN] : run.out = NameReference(imf.words, sp)

-----------------------------------------------------------------------------
(* rfc5322::quoted_string step by step                                     *)

\* pair(opt(fws), qcontent): Option<Cow<str>> is the white space, empty for None
\* (fws is never empty).
QPair(P, i) ==
    and_then(ofws(i), LAMBDA ws :
    map(qcontent(P, ws.rest), LAMBDA c : [ws |-> ws.out, cont |-> c]))

\* pair(opt(fws), tag("\"")) after the many0: the trailing white space.
QClose(i) == and_then(ofws(i), LAMBDA ws : map(tag(<<34>>, ws.rest), LAMBDA q : ws.out))

\* out.last(), as the kind of the item ("" for None)
LastKind(out) == IF out = <<>> THEN "" ELSE Last(out).kind

(* The quoted-strings quoted_string is run on: up to MaxItems items, each  *)
(* optional folding white space and a token, then trailing white space.    *)

MaxItems == 2

\* "", " ", CRLF HTAB
WrittenWs == { <<>>, <<32>>, <<13, 10, 9>> }

\* a, =?utf-8?q?e?=, \", e-acute in UTF-8, the byte FF; with the text the
\* token stands for and the number of its bytes above 127
WrittenTokens ==
    { [kind |-> "Literal", bytes |-> <<97>>, text |-> <<97>>, high |-> 0],
      [kind |-> "EncodedWord", bytes |-> <<61, 63, 117, 116, 102, 45, 56, 63, 113, 63, 101, 63, 61>>, text |-> <<101>>, high |-> 0],
      [kind |-> "QP", bytes |-> <<92, 34>>, text |-> <<34>>, high |-> 0],
      [kind |-> "Literal", bytes |-> <<195, 169>>, text |-> <<233>>, high |-> 2],
      [kind |-> "Literal", bytes |-> <<255>>, text |-> <<65533>>, high |-> 1] }

WrittenItems == { [ws |-> w, token |-> t] : w \in WrittenWs, t \in WrittenTokens }

\* "ok": "..."; "cfws": (c) "..." (c); "noclose": "...
QuotedShapes == {"ok", "cfws", "noclose"}

QuotedStrings ==
    { [fn |-> "quoted_string", policy |-> P, items |-> it, trail |-> w, shape |-> sh] :
        P \in {"Legacy", "Intl"},
        it \in UNION { [1..n -> WrittenItems] : n \in 0..MaxItems },
        w \in WrittenWs,
        sh \in QuotedShapes }

QuotedBytes(q) ==
    (IF q.shape = "cfws" THEN <<32, 40, 99, 41, 32>> ELSE <<>>)
    \o <<34>>
    \o Flatten([k \in 1..Len(q.items) |-> q.items[k].ws \o q.items[k].token.bytes])
    \o q.trail
    \o (IF q.shape = "noclose" THEN <<>> ELSE <<34>>)
    \o (IF q.shape = "cfws" THEN <<32, 40, 99, 41, 120>> ELSE <<>>)

InitQuoted ==
    /\ imf \in QuotedStrings
    /\ run = [input |-> QuotedBytes(imf), rest |-> QuotedBytes(imf),
              a |-> <<>>, b |-> <<>>, iter |-> <<>>, out |-> <<>>, value |-> <<>>]
    /\ pc = "qs_open"
    /\ params = <<>>
    /\ input = <<>>
    /\ simple = EmptyMap
    /\ simple_encoded = EmptyMap
    /\ composite = EmptyMap
    /\ composite_encoding = EmptyMap
    /\ composite_out = EmptyMap
    /\ todo = {}
    /\ seg = IdleSegments
    /\ result = EmptyMap
    /\ word = NoWord
    /\ ew = NoParse
    /\ header = NoHeader
    /\ cd = NoHeaderParse
    /\ DsnIdle /\ HsIdle /\ XfIdle

\* opt(cfws), tag("\"")
QsOpen ==
    /\ pc = "qs_open"
    /\ tag(<<34>>, skip_cfws(imf.policy, run.rest)).ok
    /\ run' = [run EXCEPT !.rest = Tail(skip_cfws(imf.policy, run.rest))]
    /\ pc' = "qs_many0"
    /\ UNCHANGED imf /\ UNCHANGED notImfVars

\* many0(pair(opt(fws), qcontent)): one more pair
QsPair ==
    /\ pc = "qs_many0"
    /\ QPair(imf.policy, run.rest).ok
    /\ run' = [run EXCEPT !.rest = QPair(imf.policy, run.rest).rest,
                          !.a = Append(@, QPair(imf.policy, run.rest).out)]
    /\ UNCHANGED <<imf, pc>> /\ UNCHANGED notImfVars

\* The many0 ends; opt(fws), tag("\""); the closure of map starts.
QsPairsEnd ==
    /\ pc = "qs_many0"
    /\ ~QPair(imf.policy, run.rest).ok
    /\ QClose(run.rest).ok
    /\ run' = [run EXCEPT !.rest = QClose(run.rest).rest,
                          !.b = QClose(run.rest).out,
                          !.iter = run.a]
    /\ pc' = "qs_fold"
    /\ UNCHANGED imf /\ UNCHANGED notImfVars

\* No opening quote, or no closing quote where the contents end.
QsError ==
    /\ \/ pc = "qs_open" /\ ~tag(<<34>>, skip_cfws(imf.policy, run.rest)).ok
       \/ pc = "qs_many0" /\ ~QPair(imf.policy, run.rest).ok /\ ~QClose(run.rest).ok
    /\ pc' = "qs_error"
    /\ UNCHANGED <<imf, run>> /\ UNCHANGED notImfVars

\* for (ws, cont) in a
QsFold ==
    /\ pc = "qs_fold"
    /\ run.iter # <<>>
    /\ run' = [run EXCEPT !.iter = Tail(@),
                          !.out = @ \o QPush(LastKind(run.out), Head(run.iter).ws,
                                             Head(run.iter).cont)]
    /\ UNCHANGED <<imf, pc>> /\ UNCHANGED notImfVars

\* if let Some(x) = b
QsTrailing ==
    /\ pc = "qs_fold"
    /\ run.iter = <<>>
    /\ run' = [run EXCEPT !.out = @ \o (IF run.b = <<>> THEN <<>>
                                        ELSE <<QContent("Literal", run.b)>>)]
    /\ pc' = "qs_concat"
    /\ UNCHANGED imf /\ UNCHANGED notImfVars

\* opt(cfws), and the closure of map in quoted_string: concat_qs
QsConcat ==
    /\ pc = "qs_concat"
    /\ run' = [run EXCEPT !.rest = skip_cfws(imf.policy, run.rest),
                          !.value = concat_qs(run.out)]
    /\ pc' = "qs_done"
    /\ UNCHANGED imf /\ UNCHANGED notImfVars

NextQuoted ==
    \/ QsOpen
    \/ QsPair
    \/ QsPairsEnd
    \/ QsError
    \/ QsFold
    \/ QsTrailing
    \/ QsConcat

SpecQuoted == InitQuoted /\ [][NextQuoted]_vars


\* White space as a quoted-string shows it: the CRLF of a fold removed.
WsText(ws) == SelectSeq(ws, LAMBDA c : c \notin {13, 10})

\* The text of the written items in order, the white space in front of each
\* kept unless it stands between two encoded words, and the trailing one.
QuotedReference(items, trail) ==
    Flatten([k \in 1..Len(items) |->
        (IF k > 1 /\ items[k].token.kind = "EncodedWord"
                  /\ items[k - 1].token.kind = "EncodedWord"
         THEN <<>> ELSE WsText(items[k].ws)) \o items[k].token.text])
    \o WsText(trail)

\* An encoded word written right behind a literal run is part of the run.
TokensApart(items) ==
    \A k \in 2..Len(items) :
        items[k].token.kind = "EncodedWord" /\ items[k].ws = <<>>
            => items[k - 1].token.kind # "Literal"

\* The number of bytes above 127 among the written items.
HighBytes(items) == Len(SelectSeq(Flatten([k \in 1..Len(items) |-> items[k].token.bytes]),
                                  LAMBDA c : c > 127))

\* C12: the value of a quoted-string is the in-order concatenation of the
\* decoded text of its content tokens; the folding white space between two
\* adjacent encoded words is dropped, every other one inside the quotes,
\* the trailing one included, appears once with its CRLF removed.
C12_QuotedValue ==
    (/\ imf.fn = "quoted_string"
     /\ pc = "qs_done"
     /\ TokensApart(imf.items)
     /\ (imf.policy = "Legacy" => HighBytes(imf.items) = 0))
        => run.value = QuotedReference(imf.items, imf.trail)

\* Folded white space between two encoded words, and a trailing one, parsed.
C12_Witness ==
    /\ imf.fn = "quoted_string"
    /\ pc = "qs_done"
    /\ Len(imf.items) = 2
    /\ imf.items[1].token.kind = "EncodedWord"
    /\ imf.items[2].token.kind = "EncodedWord"
    /\ imf.items[2].ws = <<13, 10, 9>>
    /\ imf.trail = <<13, 10, 9>>
    /\ run.value = <<101, 101, 9>>

\* C13: under the Legacy policy the value of a quoted-string holds one
\* U+FFFD for each input byte above 127 and no decoded non-ASCII character.
C13_LegacyReplaced ==
    (imf.fn = "quoted_string" /\ pc = "qs_done" /\ imf.policy = "Legacy")
        => /\ Len(SelectSeq(run.value, LAMBDA c : c = 65533)) = HighBytes(imf.items)
           /\ \A k \in 1..Len(run.value) : run.value[k] < 128 \/ run.value[k] = 65533

-----------------------------------------------------------------------------
(* rfc5322::unstructured                                                   *)

\* alt((P::vchar, _8bit_char))
unstructured_char(P, i) == alt(PolicyChar(P, "vchar", i), eight_bit_char(i))

RECURSIVE UnstructuredChars(_, _)
UnstructuredChars(P, i) ==
    opt(and_then(unstructured_char(P, i), LAMBDA c :
        map(UnstructuredChars(P, c.rest), LAMBDA r : <<c.out>> \o r)),
        i, <<>>)

\* map(many1(alt((P::vchar, _8bit_char))), |c| c.iter().collect::<String>())
vchar_run(P, i) ==
    and_then(unstructured_char(P, i), LAMBDA c :
    map(UnstructuredChars(P, c.rest), LAMBDA r : <<c.out>> \o r))

\* preceded(fws, encoded_word) with the white space shown: the mutation of
\* folded_encoded_word that does not absorb it.
FoldedEncodedWordKeepWs(i) ==
    and_then(fws(i), LAMBDA ws :
    map(encoded_word(ws.rest), LAMBDA w : ws.out \o EncodedWord_decode(w.charset, w.bytes)))

\* preceded(fws, encoded_word), and ew.decode() of the fold
folded_encoded_word(i) ==
    and_then(fws(i), LAMBDA ws :
    map(encoded_word(ws.rest), LAMBDA w : EncodedWord_decode(w.charset, w.bytes)))

\* fold_many0(cont, out, fold) of util::fold_prefix0
RECURSIVE EncodedWordsFold(_, _)
EncodedWordsFold(i, s) ==
    alt(and_then(folded_encoded_word(i), LAMBDA w : EncodedWordsFold(w.rest, s \o w.out)),
        Ok(i, s))

\* fold_prefix0(encoded_word, preceded(fws, encoded_word), String::new(), ..)
fold_prefix0(i) ==
    and_then(encoded_word(i), LAMBDA w :
        EncodedWordsFold(w.rest, EncodedWord_decode(w.out.charset, w.out.bytes)))

\* One turn of the many0: alt((pair(ofws, encoded words), pair(ofws, text)))
unstructured_word(P, i) ==
    alt(and_then(ofws(i), LAMBDA ws :
            map(fold_prefix0(ws.rest), LAMBDA s : [word_ws |-> ws.out, word |-> s])),
        and_then(ofws(i), LAMBDA ws :
            map(vchar_run(P, ws.rest), LAMBDA s : [word_ws |-> ws.out, word |-> s])))

RECURSIVE UnstructuredWords(_, _)
UnstructuredWords(P, i) ==
    opt(and_then(unstructured_word(P, i), LAMBDA w :
        map(UnstructuredWords(P, w.rest), LAMBDA r : <<w.out>> \o r)),
        i, <<>>)

\* many0(wsp)
wsp_many0(i) == Ok(Drop(i, PrefixLen(IsWsp, i)), SubSeq(i, 1, PrefixLen(IsWsp, i)))

\* unstructured: the closure of map
unstructured(P, i) ==
    and_then(UnstructuredWords(P, i), LAMBDA words :
    map(wsp_many0(words.rest), LAMBDA ws :
        Flatten([k \in 1..Len(words.out) |-> words.out[k].word_ws \o words.out[k].word])
        \o ws))

(* The header bodies unstructured is run on.                               *)

\* a, =?utf-8?q?e?=, e-acute in UTF-8, the byte FF; with the text of the
\* token under Intl and under Legacy
UnstructuredTokens ==
    { [kind |-> "Literal", bytes |-> <<97, 34>>, text |-> <<97, 34>>, legacy |-> <<97, 34>>],
      [kind |-> "EncodedWord", bytes |-> <<61, 63, 117, 116, 102, 45, 56, 63, 113, 63, 101, 63, 61>>, text |-> <<101>>, legacy |-> <<101>>],
      [kind |-> "Literal", bytes |-> <<195, 169>>, text |-> <<233>>, legacy |-> <<65533, 65533>>],
      [kind |-> "Literal", bytes |-> <<255>>, text |-> <<65533>>, legacy |-> <<65533>>] }

UnstructuredItems == { [ws |-> w, token |-> t] : w \in WrittenWs, t \in UnstructuredTokens }

\* "", " ", HTAB SP, SP CRLF SP
UnstructuredTrails == { <<>>, <<32>>, <<9, 32>>, <<32, 13, 10, 32>> }

Bodies ==
    { [fn |-> "unstructured", policy |-> P, items |-> it, trail |-> w, tail |-> t] :
        P \in {"Legacy", "Intl"},
        it \in UNION { [1..n -> UnstructuredItems] : n \in 0..MaxItems },
        w \in UnstructuredTrails,
        t \in { <<>>, <<13, 10>> } }

BodyBytes(b) ==
    Flatten([k \in 1..Len(b.items) |-> b.items[k].ws \o b.items[k].token.bytes])
    \o b.trail \o b.tail

InitUnstructured ==
    /\ imf \in Bodies
    /\ run = [input |-> BodyBytes(imf), rest |-> BodyBytes(imf),
              words |-> <<>>, ws |-> <<>>, iter |-> <<>>, out |-> <<>>]
    /\ pc = "un_words"
    /\ params = <<>>
    /\ input = <<>>
    /\ simple = EmptyMap
    /\ simple_encoded = EmptyMap
    /\ composite = EmptyMap
    /\ composite_encoding = EmptyMap
    /\ composite_out = EmptyMap
    /\ todo = {}
    /\ seg = IdleSegments
    /\ result = EmptyMap
    /\ word = NoWord
    /\ ew = NoParse
    /\ header = NoHeader
    /\ cd = NoHeaderParse
    /\ DsnIdle /\ HsIdle /\ XfIdle

\* many0(alt(..)): one more (word_ws, word)
UnWord ==
    /\ pc = "un_words"
    /\ unstructured_word(imf.policy, run.rest).ok
    /\ run' = [run EXCEPT !.rest = unstructured_word(imf.policy, run.rest).rest,
                          !.words = Append(@, unstructured_word(imf.policy, run.rest).out)]
    /\ UNCHANGED <<imf, pc>> /\ UNCHANGED notImfVars

\* The many0 of words ends; many0(wsp); the closure of map starts.
UnWordsEnd ==
    /\ pc = "un_words"
    /\ ~unstructured_word(imf.policy, run.rest).ok
    /\ run' = [run EXCEPT !.rest = wsp_many0(run.rest).rest,
                          !.ws = wsp_many0(run.rest).out,
                          !.iter = run.words]
    /\ pc' = "un_fold"
    /\ UNCHANGED imf /\ UNCHANGED notImfVars

\* for (word_ws, word) in words
UnPush ==
    /\ pc = "un_fold"
    /\ run.iter # <<>>
    /\ run' = [run EXCEPT !.iter = Tail(@),
                          !.out = @ \o Head(run.iter).word_ws \o Head(run.iter).word]
    /\ UNCHANGED <<imf, pc>> /\ UNCHANGED notImfVars

\* out.push_str(str::from_utf8(&ws).unwrap()); out
UnReturn ==
    /\ pc = "un_fold"
    /\ run.iter = <<>>
    /\ run' = [run EXCEPT !.out = @ \o run.ws]
    /\ pc' = "un_done"
    /\ UNCHANGED imf /\ UNCHANGED notImfVars

NextUnstructured ==
    \/ UnWord
    \/ UnWordsEnd
    \/ UnPush
    \/ UnReturn

SpecUnstructured == InitUnstructured /\ [][NextUnstructured]_vars

\* The text a token stands for under the policy.
TokenText(P, t) == IF P = "Legacy" THEN t.legacy ELSE t.text

\* The text of the items in order, each after its white space unless that
\* stands between two encoded words, then the spaces and tabs that follow.
UnstructuredReference(P, items, trail) ==
    Flatten([k \in 1..Len(items) |->
        (IF k > 1 /\ items[k].token.kind = "EncodedWord"
                  /\ items[k - 1].token.kind = "EncodedWord"
         THEN <<>> ELSE WsText(items[k].ws)) \o TokenText(P, items[k].token)])
    \o SubSeq(trail, 1, PrefixLen(IsWsp, trail))

\* C14: the result of unstructured is the in-order concatenation of each
\* token's text preceded by the white space of the FWS in front of it, the
\* FWS between two encoded words absorbed, then the trailing run of spaces
\* and tabs verbatim.
C14_UnstructuredText ==
    (imf.fn = "unstructured" /\ pc = "un_done" /\ TokensApart(imf.items))
        => run.out = UnstructuredReference(imf.policy, imf.items, imf.trail)

\* Two encoded words around a folded line and a trailing tab and space.
C14_Witness ==
    /\ imf.fn = "unstructured"
    /\ pc = "un_done"
    /\ Len(imf.items) = 2
    /\ imf.items[1].token.kind = "EncodedWord"
    /\ imf.items[2].token.kind = "EncodedWord"
    /\ imf.items[2].ws = <<13, 10, 9>>
    /\ imf.trail = <<9, 32>>
    /\ run.out = <<101, 101, 9, 32>>

-----------------------------------------------------------------------------
(* rfc5322: addresses                                                      *)

crlf(i) == tag(<<13, 10>>, i)

\* recognize_many0(pair(tag("."), recognize_many1(P::atext)))
RECURSIVE DotAtomTail(_, _)
DotAtomTail(P, i) ==
    opt(and_then(tag(<<46>>, i), LAMBDA d :
        and_then(recognize_many1(P, "atext", d.rest), LAMBDA a :
        DotAtomTail(P, a.rest))),
        i, <<>>)

\* dot_atom; the output is the text between the comments.
dot_atom(P, i) ==
    and_then(recognize_many1(P, "atext", skip_cfws(P, i)), LAMBDA a :
    and_then(DotAtomTail(P, a.rest), LAMBDA t :
    Ok(skip_cfws(P, t.rest),
       Utf8Decode(SubSeq(skip_cfws(P, i), 1, Len(skip_cfws(P, i)) - Len(t.rest)),
                  0, 0, 128, 191))))

local_part(P, i) ==
    alt(map(dot_atom(P, i), LAMBDA a : [kind |-> "DotAtom", text |-> a]),
        map(quoted_string(P, i), LAMBDA q : [kind |-> "Quoted", text |-> q]))

\* many0(pair(ofws, recognize_many1(P::dtext))), flattened as the closure does
RECURSIVE DomainLiteralBody(_, _)
DomainLiteralBody(P, i) ==
    opt(and_then(ofws(i), LAMBDA ws :
        and_then(recognize_many1(P, "dtext", ws.rest), LAMBDA d :
        map(DomainLiteralBody(P, d.rest), LAMBDA r :
            ws.out \o Utf8Decode(d.out, 0, 0, 128, 191) \o r))),
        i, <<>>)

\* domain_literal; the output is the text of AddressLiteral::FreeForm, of
\* which AddressLiteral::upgrade is a function.
domain_literal(P, i) ==
    and_then(tag(<<91>>, skip_cfws(P, i)), LAMBDA o :
    and_then(DomainLiteralBody(P, o.rest), LAMBDA a :
    and_then(ofws(a.rest), LAMBDA b :
    and_then(tag(<<93>>, b.rest), LAMBDA c :
    Ok(skip_cfws(P, c.rest), a.out \o b.out)))))

domain(P, i) ==
    alt(map(dot_atom(P, i), LAMBDA a : [kind |-> "Domain", text |-> a]),
        map(domain_literal(P, i), LAMBDA a : [kind |-> "Address", text |-> a]))

\* separated_pair(local_part, tag("@"), domain)
addr_spec(P, i) ==
    and_then(local_part(P, i), LAMBDA lp :
    and_then(tag(<<64>>, lp.rest), LAMBDA at :
    map(domain(P, at.rest), LAMBDA d : [local |-> lp.out, domain |-> d])))

angle_addr(P, i) ==
    and_then(tag(<<60>>, skip_cfws(P, i)), LAMBDA o :
    and_then(addr_spec(P, o.rest), LAMBDA a :
    and_then(tag(<<62>>, a.rest), LAMBDA c :
    Ok(skip_cfws(P, c.rest), a.out))))

\* Mailbox { dname, address }; dname is <<>> for None, <<name>> for Some
Mailbox(dname, addr) == [dname |-> dname, address |-> addr]

name_addr(P, i) ==
    and_then(opt(map(display_name(P, i), LAMBDA d : <<d>>), i, <<>>), LAMBDA dn :
    map(angle_addr(P, dn.rest), LAMBDA a : Mailbox(dn.out, a)))

mailbox(P, i) ==
    alt(name_addr(P, i), map(addr_spec(P, i), LAMBDA a : Mailbox(<<>>, a)))

\* separated_list1(tag(","), mailbox) with res parsed so far: a mailbox, after
\* a comma unless it is the first; without one the list ends, and an empty
\* list is an error.
RECURSIVE MailboxListFrom(_, _, _)
MailboxListFrom(P, i, res) ==
    alt(and_then(IF res = <<>> THEN Ok(i, <<>>) ELSE tag(<<44>>, i), LAMBDA c :
        and_then(mailbox(P, c.rest), LAMBDA m :
        MailboxListFrom(P, m.rest, Append(res, m.out)))),
        IF res = <<>> THEN Fail ELSE Ok(i, res))

mailbox_list(P, i) == MailboxListFrom(P, i, <<>>)

group_list(P, i) == alt(mailbox_list(P, i), map(cfws(P, i), LAMBDA c : <<>>))

\* Group { dname, members }
group(P, i) ==
    and_then(display_name(P, i), LAMBDA dn :
    and_then(tag(<<58>>, dn.rest), LAMBDA c :
    and_then(opt(group_list(P, c.rest), c.rest, <<>>), LAMBDA ms :
    and_then(tag(<<59>>, ms.rest), LAMBDA s :
    Ok(skip_cfws(P, s.rest), [dname |-> dn.out, members |-> ms.out])))))

\* Address::Mailbox, Address::Group
address(P, i) ==
    alt(map(mailbox(P, i), LAMBDA m : [kind |-> "Mailbox", value |-> m]),
        map(group(P, i), LAMBDA g : [kind |-> "Group", value |-> g]))

\* separated_list1(tag(","), address) with res parsed so far: one more
\* address, after a comma unless it is the first
next_address(P, i, res) ==
    and_then(IF res = <<>> THEN Ok(i, <<>>) ELSE tag(<<44>>, i), LAMBDA c :
        address(P, c.rest))

\* Without one more address the list ends, and an empty list is an error.
RECURSIVE AddressListFrom(_, _, _)
AddressListFrom(P, i, res) ==
    alt(and_then(next_address(P, i, res), LAMBDA a :
        AddressListFrom(P, a.rest, Append(res, a.out))),
        IF res = <<>> THEN Fail ELSE Ok(i, res))

address_list(P, i) == AddressListFrom(P, i, <<>>)

\* terminated(address_list, opt(crlf))
address_list_crlf(P, i) ==
    and_then(address_list(P, i), LAMBDA l : Ok(opt(crlf(l.rest), l.rest, <<>>).rest, l.out))

\* terminated(address, opt(crlf))
address_crlf(P, i) ==
    and_then(address(P, i), LAMBDA a : Ok(opt(crlf(a.rest), a.rest, <<>>).rest, a.out))


\* from and reply_to are address_list_crlf, sender is address_crlf
HeaderFn(fn, P, i) ==
    IF fn = "sender" THEN address_crlf(P, i) ELSE address_list_crlf(P, i)

(* The address headers from, sender and reply_to are run on: up to         *)
(* MaxAddrs written addresses joined by commas, with or without a CRLF.    *)

MaxAddrs == 2

\* Each written address with the local part of its (first) mailbox; the
\* last one is not an address.
WrittenAddrs ==
    { [bytes |-> <<97, 64, 98>>, key |-> <<97>>],
      [bytes |-> <<103, 64, 104, 32>>, key |-> <<103>>],
      [bytes |-> <<78, 32, 60, 99, 64, 100, 62>>, key |-> <<99>>],
      [bytes |-> <<71, 58, 101, 64, 102, 59>>, key |-> <<101>>],
      [bytes |-> <<32, 40, 99, 41, 32, 34, 113, 34, 64, 91, 120, 93>>, key |-> <<113>>],
      [bytes |-> <<64>>, key |-> <<>>] }

AddrHeaders ==
    { [fn |-> f, policy |-> P, addrs |-> a, crlf |-> c] :
        f \in {"from", "sender", "reply_to"},
        P \in {"Legacy", "Intl"},
        a \in UNION { [1..n -> WrittenAddrs] : n \in 1..MaxAddrs },
        c \in BOOLEAN }

\* The addresses joined by commas
AddrValue(a) ==
    Flatten([k \in 1..Len(a) |-> (IF k = 1 THEN <<>> ELSE <<44>>) \o a[k].bytes])

AddrBytes(h) == AddrValue(h.addrs) \o (IF h.crlf THEN <<13, 10>> ELSE <<>>)

InitAddr ==
    /\ imf \in AddrHeaders
    /\ run = [input |-> AddrBytes(imf), rest |-> AddrBytes(imf), list |-> <<>>, res |-> Fail,
              out |-> <<>>]
    /\ pc = "ad_list"
    /\ params = <<>>
    /\ input = <<>>
    /\ simple = EmptyMap
    /\ simple_encoded = EmptyMap
    /\ composite = EmptyMap
    /\ composite_encoding = EmptyMap
    /\ composite_out = EmptyMap
    /\ todo = {}
    /\ seg = IdleSegments
    /\ result = EmptyMap
    /\ word = NoWord
    /\ ew = NoParse
    /\ header = NoHeader
    /\ cd = NoHeaderParse
    /\ DsnIdle /\ HsIdle /\ XfIdle

\* address (of address_crlf), or separated_list1(tag(","), address): one
\* more address is tried, after a comma unless it is the first
AddrTry ==
    /\ pc = "ad_list"
    /\ run' = [run EXCEPT !.res = next_address(imf.policy, run.rest, run.list)]
    /\ pc' = "ad_match"
    /\ UNCHANGED imf /\ UNCHANGED notImfVars

\* It is an address: address_crlf has its address, the list one more.
AddrNext ==
    /\ pc = "ad_match"
    /\ run.res.ok
    /\ run' = [run EXCEPT !.rest = run.res.rest, !.list = Append(@, run.res.out),
                          !.res = Fail]
    /\ pc' = IF imf.fn = "sender" THEN "ad_crlf" ELSE "ad_list"
    /\ UNCHANGED imf /\ UNCHANGED notImfVars

\* It is not: at the start the header function fails, later the list is
\* complete.
AddrListEnd ==
    /\ pc = "ad_match"
    /\ ~run.res.ok
    /\ pc' = IF run.list = <<>> THEN "ad_error" ELSE "ad_crlf"
    /\ UNCHANGED <<imf, run>> /\ UNCHANGED notImfVars

\* terminated(.., opt(crlf))
AddrCrlf ==
    /\ pc = "ad_crlf"
    /\ run' = [run EXCEPT !.rest = opt(crlf(run.rest), run.rest, <<>>).rest,
                          !.out = IF imf.fn = "sender" THEN run.list[1] ELSE run.list]
    /\ pc' = "ad_done"
    /\ UNCHANGED imf /\ UNCHANGED notImfVars

NextAddr ==
    \/ AddrTry
    \/ AddrNext
    \/ AddrListEnd
    \/ AddrCrlf

SpecAddr == InitAddr /\ [][NextAddr]_vars

\* The local part of an address, of the first member for a group.
AddressKey(a) ==
    IF a.kind = "Mailbox" THEN a.value.address.local.text
    ELSE IF a.value.members = <<>> THEN <<>>
    ELSE a.value.members[1].address.local.text

\* C15: from, sender and reply_to consume one trailing CRLF: whenever V
\* parses with nothing left over, V followed by CRLF parses to the same
\* result with nothing left over; from and reply_to return one or more
\* addresses in input order, sender exactly one.
C15_TrailingCrlf ==
    (imf.fn \in {"from", "sender", "reply_to"} /\ pc = "ad_done")
        => /\ \A v \in {HeaderFn(imf.fn, imf.policy, AddrValue(imf.addrs))} :
                (imf.crlf /\ v.ok /\ v.rest = <<>>)
                    => run.rest = <<>> /\ run.out = v.out
           /\ imf.fn = "sender" => AddressKey(run.out) = imf.addrs[1].key
           /\ imf.fn # "sender"
                  => /\ Len(run.out) \in 1..Len(imf.addrs)
                     /\ \A k \in 1..Len(run.out) : AddressKey(run.out[k]) = imf.addrs[k].key

-----------------------------------------------------------------------------
(* rfc3461::dsn_mail_params                                                *)

hexchar(i) == and_then(tag(<<43>>, i), LAMBDA p : hexpair(p.rest))

\* matches!(c, 33..=42 | 44..=60 | 62..=126)
IsXchar(c) == c \in (33..42) \cup (44..60) \cup (62..126)

\* take1_filter(IsXchar)
xchar(i) == IF i # <<>> /\ IsXchar(i[1]) THEN Ok(Tail(i), i[1]) ELSE Fail

\* many0(alt((xchar, hexchar))): the decoded bytes. A run of xchar is taken
\* at once, so that the depth of the recursion is the number of hexchar.
RECURSIVE xtext(_)
xtext(i) ==
    and_then(Ok(Drop(i, PrefixLen(IsXchar, i)), SubSeq(i, 1, PrefixLen(IsXchar, i))),
             LAMBDA x :
        opt(and_then(hexchar(x.rest), LAMBDA c :
            map(xtext(c.rest), LAMBDA r : x.out \o <<c.out>> \o r)),
            x.rest, x.out))

\* verify(xtext, |xtext| xtext.iter().all(|c| matches!(c, 9..=13 | 32..=126)))
printable_xtext(i) ==
    and_then(xtext(i), LAMBDA x :
        IF \A k \in 1..Len(x.out) : x.out[k] \in (9..13) \cup (32..126) THEN x ELSE Fail)

\* all_consuming
all_consuming(a) == IF a.ok /\ a.rest = <<>> THEN a ELSE Fail

\* Param: (name, Option<value>); the value is <<>> for None, <<v>> for Some(v)
Param(name, val) == [name |-> name, value |-> val]

\* The limit on the length of the value of ENVID
EnvidLimit == 100

\* match value.to_lowercase(): as the mutation of DSNRet that does not fold case
DSNRetExact(val) ==
    IF val = <<102, 117, 108, 108>> THEN "Full"
    ELSE IF val = <<104, 100, 114, 115>> THEN "Hdrs"
    ELSE "Invalid"

\* match value.to_lowercase().as_str() { "full" => .., "hdrs" => .., _ => .. }
DSNRet(val) ==
    IF to_lowercase(val) = <<102, 117, 108, 108>> THEN "Full"
    ELSE IF to_lowercase(val) = <<104, 100, 114, 115>> THEN "Hdrs"
    ELSE "Invalid"

\* The state of the loop: out, envid_val and ret_val (<<>> for None), and
\* err, the Err returned ("" while there is none).
DsnStart == [out |-> <<>>, envid_val |-> <<>>, ret_val |-> <<>>, err |-> ""]

DsnErr(st, e) == [st EXCEPT !.err = e]

\* The loop body with RET and ENVID falling through to the last arm: the
\* mutation of dsn_param that leaves them among the other parameters too.
DsnParamPushAll(st, p) ==
    [st EXCEPT !.out = Append(@, p),
               !.ret_val = IF to_lowercase(p.name) = <<114, 101, 116>> /\ p.value # <<>>
                           THEN <<DSNRet(p.value[1])>> ELSE @]

\* The body of the for loop of dsn_mail_params
dsn_param(st, p) ==
    IF to_lowercase(p.name) = <<114, 101, 116>> /\ p.value # <<>> THEN
        IF st.ret_val # <<>> THEN DsnErr(st, "Duplicate RET")
        ELSE IF DSNRet(p.value[1]) = "Invalid" THEN DsnErr(st, "Invalid RET")
        ELSE [st EXCEPT !.ret_val = <<DSNRet(p.value[1])>>]
    ELSE IF to_lowercase(p.name) = <<101, 110, 118, 105, 100>> /\ p.value # <<>> THEN
        IF st.envid_val # <<>> THEN DsnErr(st, "Duplicate ENVID")
        ELSE IF Len(p.value[1]) > EnvidLimit THEN DsnErr(st, "ENVID over 100 bytes")
        ELSE IF all_consuming(printable_xtext(p.value[1])).ok
             THEN [st EXCEPT !.envid_val =
                       <<decode_ascii(all_consuming(printable_xtext(p.value[1])).out)>>]
        ELSE DsnErr(st, "Invalid ENVID")
    ELSE IF to_lowercase(p.name) = <<114, 101, 116>> THEN DsnErr(st, "RET without value")
    ELSE IF to_lowercase(p.name) = <<101, 110, 118, 105, 100>> THEN DsnErr(st, "ENVID without value")
    ELSE [st EXCEPT !.out = Append(@, p)]

\* dsn_mail_params: Ok((DSNMailParams { envid, ret }, out)) or Err(err)
RECURSIVE DsnLoop(_, _)
DsnLoop(st, ps) ==
    IF st.err # "" THEN [ok |-> FALSE, err |-> st.err]
    ELSE IF ps = <<>>
    THEN [ok |-> TRUE, params |-> [envid |-> st.envid_val, ret |-> st.ret_val],
          out |-> st.out]
    ELSE DsnLoop(dsn_param(st, Head(ps)), Tail(ps))

dsn_mail_params(ps) == DsnLoop(DsnStart, ps)


(* The parameter lists dsn_mail_params is run on.                          *)

MaxDsnParams == 3

\* n times the letter a
Letters(n) == [k \in 1..n |-> 97]

WrittenParams ==
    { Param(<<82, 69, 84>>, <<<<70, 85, 76, 76>>>>), Param(<<114, 101, 116>>, <<<<104, 100, 114, 115>>>>),
      Param(<<82, 101, 116>>, <<<<70, 117, 108, 108>>>>), Param(<<82, 69, 84>>, <<<<98, 97, 100>>>>),
      Param(<<82, 69, 84>>, <<>>),
      Param(<<69, 78, 86, 73, 68>>, <<<<97, 43, 50, 66, 98>>>>), Param(<<101, 110, 118, 105, 100>>, << <<>> >>),
      Param(<<69, 110, 118, 73, 100>>, <<<<97, 32, 98>>>>), Param(<<69, 78, 86, 73, 68>>, <<<<43, 48, 48>>>>),
      Param(<<69, 78, 86, 73, 68>>, <<<<97, 43, 50>>>>),
      Param(<<69, 78, 86, 73, 68>>, <<Letters(EnvidLimit)>>),
      Param(<<69, 78, 86, 73, 68>>, <<Letters(EnvidLimit + 1)>>),
      Param(<<101, 110, 118, 105, 100>>, <<>>),
      Param(<<79, 84, 72, 69, 82>>, <<>>), Param(<<82, 69, 84, 88>>, <<<<70, 85, 76, 76>>>>),
      Param(<<83, 73, 90, 69>>, <<<<97, 32, 98>>>>) }

DsnParamLists == UNION { [1..n -> WrittenParams] : n \in 0..MaxDsnParams }

InitDsn ==
    /\ dsn \in { [input |-> ps, iter |-> ps, st |-> DsnStart, result |-> <<>>] :
                    ps \in DsnParamLists }
    /\ pc = "dsn_loop"
    /\ params = <<>>
    /\ input = <<>>
    /\ simple = EmptyMap
    /\ simple_encoded = EmptyMap
    /\ composite = EmptyMap
    /\ composite_encoding = EmptyMap
    /\ composite_out = EmptyMap
    /\ todo = {}
    /\ seg = IdleSegments
    /\ result = EmptyMap
    /\ word = NoWord
    /\ ew = NoParse
    /\ header = NoHeader
    /\ cd = NoHeaderParse
    /\ ImfIdle /\ HsIdle /\ XfIdle

\* ("ret", Some(value)) with a value that is accepted
DsnRetParam ==
    /\ pc = "dsn_loop"
    /\ dsn.iter # <<>>
    /\ to_lowercase(Head(dsn.iter).name) = <<114, 101, 116>>
    /\ \E st \in {dsn_param(dsn.st, Head(dsn.iter))} :
        /\ st.err = ""
        /\ dsn' = [dsn EXCEPT !.iter = Tail(@), !.st = st]
    /\ UNCHANGED pc /\ UNCHANGED notDsnVars

\* ("envid", Some(value)) with a value that is accepted
DsnEnvidParam ==
    /\ pc = "dsn_loop"
    /\ dsn.iter # <<>>
    /\ to_lowercase(Head(dsn.iter).name) = <<101, 110, 118, 105, 100>>
    /\ \E st \in {dsn_param(dsn.st, Head(dsn.iter))} :
        /\ st.err = ""
        /\ dsn' = [dsn EXCEPT !.iter = Tail(@), !.st = st]
    /\ UNCHANGED pc /\ UNCHANGED notDsnVars

\* _ => out.push((*name, *value))
DsnOtherParam ==
    /\ pc = "dsn_loop"
    /\ dsn.iter # <<>>
    /\ to_lowercase(Head(dsn.iter).name) \notin {<<114, 101, 116>>, <<101, 110, 118, 105, 100>>}
    /\ dsn' = [dsn EXCEPT !.iter = Tail(@), !.st = dsn_param(dsn.st, Head(dsn.iter))]
    /\ UNCHANGED pc /\ UNCHANGED notDsnVars

\* return Err(..)
DsnFail ==
    /\ pc = "dsn_loop"
    /\ dsn.iter # <<>>
    /\ \E st \in {dsn_param(dsn.st, Head(dsn.iter))} :
        /\ st.err # ""
        /\ dsn' = [dsn EXCEPT !.result = [ok |-> FALSE, err |-> st.err]]
    /\ pc' = "dsn_error"
    /\ UNCHANGED notDsnVars

\* Ok((DSNMailParams { envid: envid_val, ret: ret_val }, out))
DsnReturn ==
    /\ pc = "dsn_loop"
    /\ dsn.iter = <<>>
    /\ dsn' = [dsn EXCEPT !.result =
                  [ok |-> TRUE,
                   params |-> [envid |-> dsn.st.envid_val, ret |-> dsn.st.ret_val],
                   out |-> dsn.st.out]]
    /\ pc' = "dsn_done"
    /\ UNCHANGED notDsnVars

NextDsn ==
    \/ DsnRetParam
    \/ DsnEnvidParam
    \/ DsnOtherParam
    \/ DsnFail
    \/ DsnReturn

SpecDsn == InitDsn /\ [][NextDsn]_vars

\* The parameters of the list with the name n, whatever the case of letters.
Named(ps, n) == SelectSeq(ps, LAMBDA p : to_lowercase(p.name) = n)

\* xtext whose decoded bytes are all printable: each byte is an xchar, or
\* "+" and two hex digits that give a byte of 9..13 or 32..126.
IsPrintableXtext(v) ==
    \A k \in 1..Len(v) :
        /\ v[k] \in 33..126 /\ v[k] # 61
        /\ v[k] = 43 =>
            /\ k + 2 <= Len(v)
            /\ is_ascii_hexdigit(v[k + 1]) /\ is_ascii_hexdigit(v[k + 2])
            /\ 16 * HexValue(v[k + 1]) + HexValue(v[k + 2]) \in (9..13) \cup (32..126)

\* What the claim lists: a second RET or ENVID, a RET value other than FULL
\* or HDRS, an ENVID value over 100 bytes or not printable xtext, a RET or
\* ENVID without value.
DsnFault(ps) ==
    \/ Len(Named(ps, <<114, 101, 116>>)) >= 2
    \/ Len(Named(ps, <<101, 110, 118, 105, 100>>)) >= 2
    \/ \E k \in 1..Len(ps) :
        /\ to_lowercase(ps[k].name) = <<114, 101, 116>>
        /\ \/ ps[k].value = <<>>
           \/ to_lowercase(ps[k].value[1]) \notin {<<102, 117, 108, 108>>, <<104, 100, 114, 115>>}
    \/ \E k \in 1..Len(ps) :
        /\ to_lowercase(ps[k].name) = <<101, 110, 118, 105, 100>>
        /\ \/ ps[k].value = <<>>
           \/ Len(ps[k].value[1]) > 100
           \/ ~IsPrintableXtext(ps[k].value[1])

DsnErrors ==
    {"Duplicate RET", "Invalid RET", "Duplicate ENVID", "ENVID over 100 bytes",
     "Invalid ENVID", "RET without value", "ENVID without value"}

\* C16: dsn_mail_params returns a named error and no parameter block
\* whenever the input holds a second RET or ENVID, a RET value other than
\* FULL or HDRS, an ENVID value over 100 bytes or not printable xtext, or a
\* RET or ENVID without value; it succeeds only when none of these occurs.
C16_DsnErrors ==
    pc \in {"dsn_done", "dsn_error"}
        => /\ dsn.result.ok <=> ~DsnFault(dsn.input)
           /\ ~dsn.result.ok => /\ dsn.result.err \in DsnErrors
                                /\ DOMAIN dsn.result = {"ok", "err"}

\* An error for a second RET behind an accepted one and an ENVID.
C16_Witness ==
    /\ pc = "dsn_error"
    /\ Len(dsn.input) = 3
    /\ Len(Named(dsn.input, <<114, 101, 116>>)) = 2
    /\ dsn.st.envid_val = <<<<97, 43, 98>>>>
    /\ dsn.result.err = "Duplicate RET"

\* C17: on success the leftover of dsn_mail_params is exactly the input
\* parameters whose name is neither RET nor ENVID, whatever the case of
\* letters, unchanged and in input order.
C17_DsnLeftover ==
    pc = "dsn_done"
        => dsn.result.out
           = SelectSeq(dsn.input,
                       LAMBDA p : to_lowercase(p.name) \notin {<<114, 101, 116>>, <<101, 110, 118, 105, 100>>})

\* Two other parameters around an accepted RET.
C17_Witness ==
    /\ pc = "dsn_done"
    /\ Len(dsn.input) = 3
    /\ dsn.input[2].name = <<114, 101, 116>>
    /\ dsn.result.out = <<dsn.input[1], dsn.input[3]>>
    /\ dsn.input[1] # dsn.input[3]

-----------------------------------------------------------------------------
(* headersection: the header splitter, on nom's streaming parsers          *)

\* Err(nom::Err::Incomplete(..)): more bytes are needed
Incomplete == [ok |-> FALSE, rest |-> <<>>, out |-> <<>>, needed |-> TRUE]

IsIncomplete(r) == "needed" \in DOMAIN r

\* A parser after another: an error of the first, Incomplete included, is
\* the result. (The result x of the first is a value by the time it is used.)
then(a, G(_)) == CHOOSE r \in { IF x.ok THEN G(x) ELSE x : x \in {a} } : TRUE

\* nom::branch::alt: only Err::Error makes it try the next parser
streaming_alt(a, b) ==
    CHOOSE r \in { IF x.ok \/ IsIncomplete(x) THEN x ELSE b : x \in {a} } : TRUE

\* nom::combinator::opt: only Err::Error becomes None
streaming_opt(a, i, none) ==
    CHOOSE r \in { IF x.ok \/ IsIncomplete(x) THEN x ELSE Ok(i, none) : x \in {a} } : TRUE

\* nom::bytes::streaming::tag: a buffer that ends inside the tag is Incomplete
streaming_tag(t, i) ==
    IF Len(i) >= Len(t) /\ SubSeq(i, 1, Len(t)) = t THEN Ok(Drop(i, Len(t)), t)
    ELSE IF Len(i) < Len(t) /\ i = SubSeq(t, 1, Len(i)) THEN Incomplete
    ELSE Fail

\* crlf of headersection
hs_crlf(i) == streaming_tag(<<13, 10>>, i)

\* recognize_many0(wsp) and many0(wsp), wsp being alt((sp, htab)) of
\* streaming tags: at the end of the buffer wsp is Incomplete.
hs_wsp_many0(i) ==
    IF PrefixLen(IsWsp, i) = Len(i) THEN Incomplete
    ELSE Ok(Drop(i, PrefixLen(IsWsp, i)), SubSeq(i, 1, PrefixLen(IsWsp, i)))

\* recognize_many1(wsp)
hs_wsp_many1(i) == IF i # <<>> /\ ~IsWsp(i[1]) THEN Fail ELSE hs_wsp_many0(i)

\* fws of headersection; only what it consumes is used
hs_fws(i) ==
    then(streaming_opt(then(hs_wsp_many0(i), LAMBDA a : hs_crlf(a.rest)), i, <<>>),
         LAMBDA o : hs_wsp_many1(o.rest))

hs_ofws(i) == streaming_opt(hs_fws(i), i, <<>>)

\* recognize(many1(vchar)); vchar is take1_filter, on the complete take: at
\* the end of the buffer it is an error, which ends the run.
hs_vchar_many1(i) ==
    IF PrefixLen(is_ascii_graphic, i) = 0 THEN Fail
    ELSE Ok(Drop(i, PrefixLen(is_ascii_graphic, i)),
            SubSeq(i, 1, PrefixLen(is_ascii_graphic, i)))

IsFieldNameChar(c) == c \in (33..57) \cup (59..126)

\* take_while1 (streaming): a buffer of name characters only is Incomplete
field_name(i) ==
    IF PrefixLen(IsFieldNameChar, i) = Len(i) THEN Incomplete
    ELSE IF PrefixLen(IsFieldNameChar, i) = 0 THEN Fail
    ELSE Ok(Drop(i, PrefixLen(IsFieldNameChar, i)),
            SubSeq(i, 1, PrefixLen(IsFieldNameChar, i)))

\* The positions of i where CRLF starts
CrlfAt(i) == { k \in 1..(Len(i) - 1) : i[k] = 13 /\ i[k + 1] = 10 }

\* take_until("\r\n") of the complete parsers: without CRLF an error. The
\* mutation of take_until that reads the buffer as if it were whole.
TakeUntilComplete(i) ==
    IF CrlfAt(i) = {} THEN Fail
    ELSE LET k == CHOOSE k \in CrlfAt(i) : \A j \in CrlfAt(i) : k <= j
         IN  Ok(Drop(i, k - 1), SubSeq(i, 1, k - 1))

\* take_until("\r\n") (streaming): without CRLF in the buffer, Incomplete
take_until(i) ==
    IF CrlfAt(i) = {} THEN Incomplete
    ELSE LET k == CHOOSE k \in CrlfAt(i) : \A j \in CrlfAt(i) : k <= j
         IN  Ok(Drop(i, k - 1), SubSeq(i, 1, k - 1))

\* until_crlf without the check of map_opt: the mutation that takes an empty
\* line as a line.
UntilCrlfAny(i) == take_until(i)

\* until_crlf: map_opt(take_until("\r\n"), ..), None for an empty slice
until_crlf(i) == then(take_until(i), LAMBDA l : IF l.out = <<>> THEN Fail ELSE l)

\* many0(pair(ofws, alt((recognize(many1(vchar)), until_crlf))))
RECURSIVE HsWords(_)
HsWords(i) ==
    streaming_opt(
        then(hs_ofws(i), LAMBDA w :
        then(streaming_alt(hs_vchar_many1(w.rest), until_crlf(w.rest)), LAMBDA x :
        HsWords(x.rest))),
        i, <<>>)

\* unstructured of headersection: the bytes it went over
hs_unstructured(i) ==
    then(HsWords(i), LAMBDA m :
    then(hs_wsp_many0(m.rest), LAMBDA w :
    Ok(w.rest, SubSeq(i, 1, Len(i) - Len(w.rest)))))

\* HeaderField: Ok((name, value)) and Err(line)
FieldOk(name, val) == [kind |-> "Ok", name |-> name, value |-> val]

FieldErr(line) == [kind |-> "Err", line |-> line]

field(i) ==
    then(field_name(i), LAMBDA n :
    then(streaming_tag(<<58>>, n.rest), LAMBDA c :
    then(hs_unstructured(c.rest), LAMBDA u :
    then(hs_crlf(u.rest), LAMBDA e :
    Ok(e.rest, FieldOk(n.out, u.out))))))

invalid_field(i) ==
    then(until_crlf(i), LAMBDA l :
    then(hs_crlf(l.rest), LAMBDA e :
    Ok(e.rest, FieldErr(l.out))))

\* field alone: the mutation of header_field without invalid_field
HeaderFieldStrict(i) == field(i)

\* alt((field, invalid_field))
header_field(i) == streaming_alt(field(i), invalid_field(i))

\* many0(alt((field, invalid_field)))
RECURSIVE HsFields(_)
HsFields(i) ==
    streaming_opt(
        then(header_field(i), LAMBDA f :
        then(HsFields(f.rest), LAMBDA r : Ok(r.rest, <<f.out>> \o r.out))),
        i, <<>>)

\* terminated(many0(alt((field, invalid_field))), opt(crlf))
header_section(i) ==
    then(HsFields(i), LAMBDA fs :
    then(streaming_opt(hs_crlf(fs.rest), fs.rest, <<>>), LAMBDA e :
    Ok(e.rest, fs.out)))

\* header: alt((map(alt((field, invalid_field)), Some), map(crlf, |_| None)));
\* the output is <<field>> for Some, <<>> for None
hs_header(i) ==
    streaming_alt(then(header_field(i), LAMBDA f : Ok(f.rest, <<f.out>>)),
                  then(hs_crlf(i), LAMBDA e : Ok(e.rest, <<>>)))


(* The messages the splitter is fed: up to MaxLines header lines, the      *)
(* empty line, and a body; the buffer holds the first `fed` bytes.         *)

MaxLines == 2

\* A: b / B:c CRLF SP d / C:b SP 01 / D: / garbage / Bad Name: x / X-e-acute: 1
WrittenLines ==
    { [raw |-> <<65, 58, 32, 98>>, field |-> <<FieldOk(<<65>>, <<32, 98>>)>>],
      [raw |-> <<66, 58, 99, 13, 10, 32, 100>>,
       field |-> <<FieldOk(<<66>>, <<99, 13, 10, 32, 100>>)>>],
      [raw |-> <<67, 58, 98, 32, 1>>, field |-> <<FieldOk(<<67>>, <<98, 32, 1>>)>>],
      [raw |-> <<68, 58>>, field |-> <<FieldOk(<<68>>, <<>>)>>],
      [raw |-> <<103, 97, 114, 98, 97, 103, 101>>, field |-> <<>>],
      [raw |-> <<66, 97, 100, 32, 78, 97, 109, 101, 58, 32, 120>>, field |-> <<>>],
      [raw |-> <<88, 45, 195, 169, 58, 32, 49>>, field |-> <<>>] }

\* "", hi, CRLF, CRLF hi
MessageBodies == { <<>>, <<104, 105>>, <<13, 10>>, <<13, 10, 104, 105>> }

\* The header section: each line with its CRLF, then the empty line
SectionBytes(ls) == Flatten([k \in 1..Len(ls) |-> ls[k].raw \o <<13, 10>>]) \o <<13, 10>>

Messages ==
    { [lines |-> ls, body |-> b] :
        ls \in UNION { [1..n -> WrittenLines] : n \in 0..MaxLines },
        b \in MessageBodies }

\* The buffer: what has arrived so far
Buffer == SubSeq(hs.input, 1, hs.fed)

InitHs ==
    /\ hs \in { [input |-> SectionBytes(msg.lines) \o msg.body,
                 lines |-> msg.lines,
                 section |-> Len(SectionBytes(msg.lines)),
                 fed |-> 0, rest |-> <<>>, fields |-> <<>>] : msg \in Messages }
    /\ pc = "hs_fields"
    /\ params = <<>>
    /\ input = <<>>
    /\ simple = EmptyMap
    /\ simple_encoded = EmptyMap
    /\ composite = EmptyMap
    /\ composite_encoding = EmptyMap
    /\ composite_out = EmptyMap
    /\ todo = {}
    /\ seg = IdleSegments
    /\ result = EmptyMap
    /\ word = NoWord
    /\ ew = NoParse
    /\ header = NoHeader
    /\ cd = NoHeaderParse
    /\ ImfIdle /\ DsnIdle /\ XfIdle

\* many0(alt((field, invalid_field))): field gives Ok((name, value))
HsField ==
    /\ pc = "hs_fields"
    /\ \E f \in {header_field(hs.rest)} :
        /\ f.ok /\ f.out.kind = "Ok"
        /\ hs' = [hs EXCEPT !.rest = f.rest, !.fields = Append(@, f.out)]
    /\ UNCHANGED pc /\ UNCHANGED notHsVars

\* many0(alt((field, invalid_field))): invalid_field gives Err(line)
HsInvalid ==
    /\ pc = "hs_fields"
    /\ \E f \in {header_field(hs.rest)} :
        /\ f.ok /\ f.out.kind = "Err"
        /\ hs' = [hs EXCEPT !.rest = f.rest, !.fields = Append(@, f.out)]
    /\ UNCHANGED pc /\ UNCHANGED notHsVars

\* Neither is found: the many0 ends; opt(crlf); Ok((rest, fields))
HsReturn ==
    /\ pc = "hs_fields"
    /\ \E f \in {header_field(hs.rest)} :
        /\ ~f.ok /\ ~IsIncomplete(f)
        /\ \E e \in {streaming_opt(hs_crlf(hs.rest), hs.rest, <<>>)} :
            /\ e.ok
            /\ hs' = [hs EXCEPT !.rest = e.rest]
    /\ pc' = "hs_done"
    /\ UNCHANGED notHsVars

\* The buffer ends too early for field, invalid_field or the last crlf:
\* Err(Incomplete), nothing of this call is kept.
HsIncomplete ==
    /\ pc = "hs_fields"
    /\ \E f \in {header_field(hs.rest)} :
        \/ IsIncomplete(f)
        \/ ~f.ok /\ IsIncomplete(hs_crlf(hs.rest))
    /\ hs' = [hs EXCEPT !.rest = <<>>, !.fields = <<>>]
    /\ pc' = "hs_incomplete"
    /\ UNCHANGED notHsVars

\* More bytes arrive and header_section is called on the longer buffer.
HsFeed ==
    /\ pc = "hs_incomplete"
    /\ \E n \in (hs.fed + 1)..Len(hs.input) :
        hs' = [hs EXCEPT !.fed = n, !.rest = SubSeq(hs.input, 1, n), !.fields = <<>>]
    /\ pc' = "hs_fields"
    /\ UNCHANGED notHsVars

NextHs ==
    \/ HsField
    \/ HsInvalid
    \/ HsReturn
    \/ HsIncomplete
    \/ HsFeed

SpecHs == InitHs /\ [][NextHs]_vars

\* The bytes keep arriving and the splitter keeps being called.
SpecHsLive == SpecHs /\ WF_vars(NextHs)

\* What the written lines stand for, in order: Ok((name, value)) for a
\* field, Err(line) for a line that is none.
ExpectedFields(ls) ==
    [k \in 1..Len(ls) |-> IF ls[k].field # <<>> THEN ls[k].field[1] ELSE FieldErr(ls[k].raw)]

\* C18: a line without colon, or with an invalid name before it, is in the
\* result as Err(line without CRLF) at its position, and the fields after it
\* are still Ok((name, value)), in input order.
C18_InvalidLines ==
    (pc = "hs_done" /\ \E k \in 1..Len(hs.lines) : hs.lines[k].field = <<>>)
        => hs.fields = ExpectedFields(hs.lines)

\* A line that is no field, then a field, both in the result.
C18_Witness ==
    /\ pc = "hs_done"
    /\ Len(hs.fields) = 2
    /\ hs.fields[1] = FieldErr(<<66, 97, 100, 32, 78, 97, 109, 101, 58, 32, 120>>)
    /\ hs.fields[2].kind = "Ok"

\* The number of bytes header needs: the first line, its CRLF and, for a
\* field, the byte after it; the CRLF alone for an empty header section.
FirstComplete(ls) ==
    IF ls = <<>> THEN 2
    ELSE Len(ls[1].raw) + 2 + (IF ls[1].field # <<>> THEN 1 ELSE 0)

\* C19: fed a buffer that ends before the header section is complete, the
\* splitter (header_section, header) reports Incomplete, never a failure
\* and never a truncated field; fed the completed buffer later it returns
\* the fields.
C19_Streaming ==
    /\ [](hs.input # <<>> =>
            /\ pc \in {"hs_fields", "hs_incomplete", "hs_done"}
            /\ hs.fed < hs.section =>
                /\ pc # "hs_done"
                /\ IsIncomplete(header_section(Buffer))
                /\ hs.fed < FirstComplete(hs.lines) => IsIncomplete(hs_header(Buffer))
            /\ pc = "hs_done" =>
                /\ hs.fields = ExpectedFields(hs.lines)
                /\ hs_header(Buffer).ok)
    /\ ((hs.input # <<>> /\ pc = "hs_incomplete")
            ~> (pc = "hs_done" /\ hs.fields = ExpectedFields(hs.lines)))

\* Incomplete for a buffer that ends with the CRLF of its first line: the
\* byte after it is still to come.
C19_Witness ==
    /\ pc = "hs_incomplete"
    /\ hs.lines # <<>>
    /\ hs.fed = Len(hs.lines[1].raw) + 2
    /\ hs.lines[1].field # <<>>

-----------------------------------------------------------------------------
(* xforward: the parameters of the XFORWARD command                        *)

\* The attribute names, in the order of the alt
CommandNames ==
    << <<97, 100, 100, 114>>, <<104, 101, 108, 111>>, <<105, 100, 101, 110, 116>>, <<110, 97, 109, 101>>, <<112, 111, 114, 116>>, <<112, 114, 111, 116, 111>>, <<115, 111, 117, 114, 99, 101>> >>

\* alt of map(tag_no_case(name), |_| name): the first name that matches
command_name(i) ==
    IF \E k \in 1..Len(CommandNames) : tag_no_case(CommandNames[k], i).ok
    THEN LET k == CHOOSE k \in 1..Len(CommandNames) :
                    /\ tag_no_case(CommandNames[k], i).ok
                    /\ \A j \in 1..(k - 1) : ~tag_no_case(CommandNames[j], i).ok
         IN  Ok(tag_no_case(CommandNames[k], i).rest, CommandNames[k])
    ELSE Fail

\* unavailable: None is <<>>, Some(v) is <<v>>
unavailable(i) == map(tag_no_case(<<91, 117, 110, 97, 118, 97, 105, 108, 97, 98, 108, 101, 93>>, i), LAMBDA u : <<>>)

\* value of xforward
xforward_value(i) == alt(unavailable(i), map(xtext(i), LAMBDA x : <<decode_ascii(x)>>))

\* param: separated_pair(command_name, tag("="), value)
param(i) ==
    and_then(command_name(i), LAMBDA c :
    and_then(tag(<<61>>, c.rest), LAMBDA e :
    map(xforward_value(e.rest), LAMBDA v : Param(c.out, v))))

\* many1(wsp)
wsp_many1(i) == IF PrefixLen(IsWsp, i) = 0 THEN Fail ELSE wsp_many0(i)

\* The first argument of separated_list1, its separator:
\* preceded(opt(many1(wsp)), param)
XforwardSeparator(i) == and_then(opt(wsp_many1(i), i, <<>>), LAMBDA w : param(w.rest))

\* The second argument of separated_list1, its element:
\* preceded(many1(wsp), param)
XforwardElement(i) == and_then(wsp_many1(i), LAMBDA w : param(w.rest))


(* The strings xforward_params is given: up to MaxPairs attr=value pairs,  *)
(* each after its white space.                                             *)

MaxPairs == 3

\* addr=1.2 / HELO=[UNAVAILABLE] / Name=a+2Bb / proto=[unavailable] / ident=+E9
WrittenPairs ==
    { [raw |-> <<97, 100, 100, 114, 61, 49, 46, 50>>, param |-> Param(<<97, 100, 100, 114>>, <<<<49, 46, 50>>>>)],
      [raw |-> <<72, 69, 76, 79, 61, 91, 85, 78, 65, 86, 65, 73, 76, 65, 66, 76, 69, 93>>, param |-> Param(<<104, 101, 108, 111>>, <<>>)],
      [raw |-> <<78, 97, 109, 101, 61, 97, 43, 50, 66, 98>>, param |-> Param(<<110, 97, 109, 101>>, <<<<97, 43, 98>>>>)],
      [raw |-> <<112, 114, 111, 116, 111, 61, 91, 117, 110, 97, 118, 97, 105, 108, 97, 98, 108, 101, 93>>, param |-> Param(<<112, 114, 111, 116, 111>>, <<>>)],
      [raw |-> <<105, 100, 101, 110, 116, 61, 43, 69, 57>>, param |-> Param(<<105, 100, 101, 110, 116>>, <<<<239, 191, 189>>>>)] }

\* none, a space, a space and a tab
PairSpaces == { <<>>, <<32>>, <<32, 9>> }

XforwardPairs ==
    UNION { [1..n -> [ws : PairSpaces, pair : WrittenPairs]] : n \in 1..MaxPairs }

XforwardBytes(ps) == Flatten([k \in 1..Len(ps) |-> ps[k].ws \o ps[k].pair.raw])

InitXf ==
    /\ xf \in { [input |-> XforwardBytes(ps), pairs |-> ps, rest |-> XforwardBytes(ps),
                 after |-> <<>>, out |-> <<>>] : ps \in XforwardPairs }
    /\ pc = "xf_first"
    /\ params = <<>>
    /\ input = <<>>
    /\ simple = EmptyMap
    /\ simple_encoded = EmptyMap
    /\ composite = EmptyMap
    /\ composite_encoding = EmptyMap
    /\ composite_out = EmptyMap
    /\ todo = {}
    /\ seg = IdleSegments
    /\ result = EmptyMap
    /\ word = NoWord
    /\ ew = NoParse
    /\ header = NoHeader
    /\ cd = NoHeaderParse
    /\ ImfIdle /\ DsnIdle /\ HsIdle

\* separated_list1: the first element is parsed and pushed
XfFirst ==
    /\ pc = "xf_first"
    /\ \E r \in {XforwardElement(xf.rest)} :
        /\ r.ok
        /\ xf' = [xf EXCEPT !.rest = r.rest, !.out = <<r.out>>]
    /\ pc' = "xf_sep"
    /\ UNCHANGED notXfVars

\* separated_list1: without a first element, Err
XfError ==
    /\ pc = "xf_first"
    /\ \E r \in {XforwardElement(xf.rest)} : ~r.ok
    /\ pc' = "xf_err"
    /\ UNCHANGED xf /\ UNCHANGED notXfVars

\* separated_list1: the separator is parsed; its output is not kept
XfSeparator ==
    /\ pc = "xf_sep"
    /\ \E r \in {XforwardSeparator(xf.rest)} :
        /\ r.ok
        /\ xf' = [xf EXCEPT !.after = r.rest]
    /\ pc' = "xf_elem"
    /\ UNCHANGED notXfVars

\* separated_list1: the element after a separator is parsed and pushed
XfNext ==
    /\ pc = "xf_elem"
    /\ \E r \in {XforwardElement(xf.after)} :
        /\ r.ok
        /\ xf' = [xf EXCEPT !.rest = r.rest, !.after = <<>>, !.out = Append(@, r.out)]
    /\ pc' = "xf_sep"
    /\ UNCHANGED notXfVars

\* separated_list1: no separator, or no element after it: Ok((i, res)), i
\* being the input before that separator
XfReturn ==
    /\ \/ pc = "xf_sep" /\ \E r \in {XforwardSeparator(xf.rest)} : ~r.ok
       \/ pc = "xf_elem" /\ \E r \in {XforwardElement(xf.after)} : ~r.ok
    /\ xf' = [xf EXCEPT !.after = <<>>]
    /\ pc' = "xf_done"
    /\ UNCHANGED notXfVars

NextXf ==
    \/ XfFirst
    \/ XfError
    \/ XfSeparator
    \/ XfNext
    \/ XfReturn

SpecXf == InitXf /\ [][NextXf]_vars

\* "attr1=value attr2=value": nothing before the first pair, white space
\* before each of the others
SpaceSeparated(ps) ==
    /\ ps[1].ws = <<>>
    /\ \A k \in 2..Len(ps) : ps[k].ws # <<>>

\* C21: on a string of attr=value pairs separated by white space,
\* xforward_params succeeds and returns one Param per pair, in input order,
\* the name in lower case, the value xtext-decoded, None for [UNAVAILABLE].
C21_XforwardParams ==
    (xf.input # <<>> /\ SpaceSeparated(xf.pairs) /\ pc \in {"xf_done", "xf_err"})
        => /\ pc = "xf_done"
           /\ xf.out = [k \in 1..Len(xf.pairs) |-> xf.pairs[k].pair.param]

-----------------------------------------------------------------------------
(* rfc3461: dsn_notify                                                     *)

Notify(s, f, d) == [on_success |-> s, on_failure |-> f, delay |-> d]

\* convert_notify_list: each flag is set by an item equal to its keyword,
\* whatever the case of the letters; any other item sets nothing
convert_notify_list(items) ==
    Notify(\E k \in 1..Len(items) : to_lowercase(items[k]) = <<115, 117, 99, 99, 101, 115, 115>>,
           \E k \in 1..Len(items) : to_lowercase(items[k]) = <<102, 97, 105, 108, 117, 114, 101>>,
           \E k \in 1..Len(items) : to_lowercase(items[k]) = <<100, 101, 108, 97, 121>>)

\* notify_item: alt((tag_no_case("success"), tag_no_case("failure"),
\* tag_no_case("delay")))
notify_item(i) ==
    alt(tag_no_case(<<115, 117, 99, 99, 101, 115, 115>>, i),
        alt(tag_no_case(<<102, 97, 105, 108, 117, 114, 101>>, i), tag_no_case(<<100, 101, 108, 97, 121>>, i)))


(* The NOTIFY values dsn_notify is given: up to MaxNotify keywords with    *)
(* commas between them.                                                    *)

MaxNotify == 3

\* success, FAILURE, Delay, never, bogus, successful
NotifyKeywords ==
    { <<115, 117, 99, 99, 101, 115, 115>>, <<70, 65, 73, 76, 85, 82, 69>>, <<68, 101, 108, 97, 121>>, <<110, 101, 118, 101, 114>>, <<98, 111, 103, 117, 115>>, <<115, 117, 99, 99, 101, 115, 115, 102, 117, 108>> }

NotifyLists == UNION { [1..n -> NotifyKeywords] : n \in 1..MaxNotify }

NotifyBytes(ks) ==
    ks[1] \o Flatten([k \in 1..(Len(ks) - 1) |-> <<44>> \o ks[k + 1]])

InitNotify ==
    /\ dsn \in { [input |-> NotifyBytes(ks), keywords |-> ks, rest |-> NotifyBytes(ks),
                  items |-> <<>>, out |-> Notify(FALSE, FALSE, FALSE)] :
                 ks \in NotifyLists }
    /\ pc = "nt_start"
    /\ params = <<>>
    /\ input = <<>>
    /\ simple = EmptyMap
    /\ simple_encoded = EmptyMap
    /\ composite = EmptyMap
    /\ composite_encoding = EmptyMap
    /\ composite_out = EmptyMap
    /\ todo = {}
    /\ seg = IdleSegments
    /\ result = EmptyMap
    /\ word = NoWord
    /\ ew = NoParse
    /\ header = NoHeader
    /\ cd = NoHeaderParse
    /\ ImfIdle /\ HsIdle /\ XfIdle

\* The first alternative: map(tag_no_case("never"), ..)
NotifyNever ==
    /\ pc = "nt_start"
    /\ \E r \in {tag_no_case(<<110, 101, 118, 101, 114>>, dsn.rest)} :
        /\ r.ok
        /\ dsn' = [dsn EXCEPT !.rest = r.rest, !.out = Notify(FALSE, FALSE, FALSE)]
    /\ pc' = "nt_done"
    /\ UNCHANGED notDsnVars

\* The second alternative, separated_list1: the first item
NotifyFirst ==
    /\ pc = "nt_start"
    /\ ~tag_no_case(<<110, 101, 118, 101, 114>>, dsn.rest).ok
    /\ \E r \in {notify_item(dsn.rest)} :
        /\ r.ok
        /\ dsn' = [dsn EXCEPT !.rest = r.rest, !.items = <<r.out>>]
    /\ pc' = "nt_list"
    /\ UNCHANGED notDsnVars

\* Neither "never" nor a first item: both alternatives fail, Err
NotifyError ==
    /\ pc = "nt_start"
    /\ ~tag_no_case(<<110, 101, 118, 101, 114>>, dsn.rest).ok
    /\ ~notify_item(dsn.rest).ok
    /\ pc' = "nt_err"
    /\ UNCHANGED dsn /\ UNCHANGED notDsnVars

\* separated_list1: tag(","), then an item
NotifyNext ==
    /\ pc = "nt_list"
    /\ \E r \in {and_then(tag(<<44>>, dsn.rest), LAMBDA c : notify_item(c.rest))} :
        /\ r.ok
        /\ dsn' = [dsn EXCEPT !.rest = r.rest, !.items = Append(@, r.out)]
    /\ UNCHANGED pc /\ UNCHANGED notDsnVars

\* separated_list1: no comma, or no item after it: the list ends before
\* that comma; convert_notify_list; Ok((rest, Notify))
NotifyReturn ==
    /\ pc = "nt_list"
    /\ ~and_then(tag(<<44>>, dsn.rest), LAMBDA c : notify_item(c.rest)).ok
    /\ dsn' = [dsn EXCEPT !.out = convert_notify_list(dsn.items)]
    /\ pc' = "nt_done"
    /\ UNCHANGED notDsnVars

NextNotify ==
    \/ NotifyNever
    \/ NotifyFirst
    \/ NotifyError
    \/ NotifyNext
    \/ NotifyReturn

SpecNotify == InitNotify /\ [][NextNotify]_vars

\* C22: dsn_notify does not fail on a comma-separated list because one of
\* its items is not success, failure or delay.
C22_UnknownNotify ==
    (pc \in {"nt_done", "nt_err"}
        /\ \E k \in 1..Len(dsn.keywords) :
              to_lowercase(dsn.keywords[k]) \notin { <<115, 117, 99, 99, 101, 115, 115>>, <<102, 97, 105, 108, 117, 114, 101>>, <<100, 101, 108, 97, 121>> })
        => pc = "nt_done"

-----------------------------------------------------------------------------
(* rfc5322: comment and _concat_comment                                    *)

MaxContents == 3

\* a / \( / a\( / () / (b\ ) / (()c) / e-acute: what is written, and what it is
\* in the content list: text, or a nested comment with its own list
WrittenContents ==
    { [raw |-> <<97>>, nested |-> FALSE, text |-> <<97>>],
      [raw |-> <<92, 40>>, nested |-> FALSE, text |-> <<40>>],
      [raw |-> <<97, 92, 40>>, nested |-> FALSE, text |-> <<97, 40>>],
      [raw |-> <<40, 41>>, nested |-> TRUE, items |-> <<>>],
      [raw |-> <<40, 98, 92, 32, 41>>, nested |-> TRUE, items |-> <<CommentText(<<98, 32>>)>>],
      [raw |-> <<40, 40, 41, 99, 41>>, nested |-> TRUE,
       items |-> <<CommentNested(<<>>), CommentText(<<99>>)>>],
      [raw |-> <<195, 169>>, nested |-> FALSE, text |-> <<233>>] }

\* No white space, or a folded line: SP CRLF HTAB, which reads as SP HTAB
CommentSpaces == { [raw |-> <<>>, text |-> <<>>],
                   [raw |-> <<32, 13, 10, 9>>, text |-> <<32, 9>>] }

Comments ==
    { [fn |-> "comment", policy |-> P, items |-> its, trail |-> t] :
        P \in {"Intl", "Legacy"},
        its \in UNION { [1..n -> [ws : CommentSpaces, cont : WrittenContents]] :
                        n \in 0..MaxContents },
        t \in CommentSpaces }

CommentBytes(c) ==
    <<40>> \o Flatten([k \in 1..Len(c.items) |-> c.items[k].ws.raw \o c.items[k].cont.raw])
           \o c.trail.raw \o <<41>>

InitComment ==
    /\ imf \in Comments
    /\ run = [input |-> CommentBytes(imf), rest |-> CommentBytes(imf),
              a |-> <<>>, iter |-> <<>>, acc_text |-> <<>>, out |-> <<>>]
    /\ pc = "cm_open"
    /\ params = <<>>
    /\ input = <<>>
    /\ simple = EmptyMap
    /\ simple_encoded = EmptyMap
    /\ composite = EmptyMap
    /\ composite_encoding = EmptyMap
    /\ composite_out = EmptyMap
    /\ todo = {}
    /\ seg = IdleSegments
    /\ result = EmptyMap
    /\ word = NoWord
    /\ ew = NoParse
    /\ header = NoHeader
    /\ cd = NoHeaderParse
    /\ DsnIdle /\ HsIdle /\ XfIdle

\* tag("(")
CmOpen ==
    /\ pc = "cm_open"
    /\ \E r \in {tag(<<40>>, run.rest)} :
        /\ r.ok
        /\ run' = [run EXCEPT !.rest = r.rest]
    /\ pc' = "cm_many0"
    /\ UNCHANGED imf /\ UNCHANGED notImfVars

\* fold_many0(pair(ofws, ccontent), ..): acc.push(Text(fws)); acc.push(cc)
CmPair ==
    /\ pc = "cm_many0"
    /\ \E r \in {CommentPair(imf.policy, run.rest)} :
        /\ r.ok
        /\ run' = [run EXCEPT !.rest = r.rest, !.a = @ \o r.out]
    /\ UNCHANGED <<imf, pc>> /\ UNCHANGED notImfVars

\* The fold_many0 ends; ofws, tag(")"); the closure of map starts with
\* a.into_iter().chain(once(Text(b)))
CmPairsEnd ==
    /\ pc = "cm_many0"
    /\ ~CommentPair(imf.policy, run.rest).ok
    /\ \E r \in {CommentClose(run.rest)} :
        /\ r.ok
        /\ run' = [run EXCEPT !.rest = r.rest, !.iter = Append(run.a, r.out)]
    /\ pc' = "cm_concat"
    /\ UNCHANGED imf /\ UNCHANGED notImfVars

\* No opening parenthesis, or no closing one where the contents end
CmError ==
    /\ \/ pc = "cm_open" /\ ~tag(<<40>>, run.rest).ok
       \/ /\ pc = "cm_many0"
          /\ ~CommentPair(imf.policy, run.rest).ok
          /\ ~CommentClose(run.rest).ok
    /\ pc' = "cm_error"
    /\ UNCHANGED <<imf, run>> /\ UNCHANGED notImfVars

\* _concat_comment: CommentContent::Text(text) => acc_text.push_str(&text)
CmText ==
    /\ pc = "cm_concat"
    /\ run.iter # <<>>
    /\ Head(run.iter).kind = "Text"
    /\ run' = [run EXCEPT !.iter = Tail(@), !.acc_text = @ \o Head(run.iter).text]
    /\ UNCHANGED <<imf, pc>> /\ UNCHANGED notImfVars

\* _concat_comment: CommentContent::QP(qp) => acc_text.push(qp)
CmQP ==
    /\ pc = "cm_concat"
    /\ run.iter # <<>>
    /\ Head(run.iter).kind = "QP"
    /\ run' = [run EXCEPT !.iter = Tail(@), !.acc_text = Append(@, Head(run.iter).char)]
    /\ UNCHANGED <<imf, pc>> /\ UNCHANGED notImfVars

\* _concat_comment: _ => push_text(..); out.push(comment)
CmNested ==
    /\ pc = "cm_concat"
    /\ run.iter # <<>>
    /\ Head(run.iter).kind = "Comment"
    /\ run' = [run EXCEPT !.iter = Tail(@), !.acc_text = <<>>,
                          !.out = Append(push_text(run.acc_text, @), Head(run.iter))]
    /\ UNCHANGED <<imf, pc>> /\ UNCHANGED notImfVars

\* _concat_comment: push_text after the loop; out
CmReturn ==
    /\ pc = "cm_concat"
    /\ run.iter = <<>>
    /\ run' = [run EXCEPT !.acc_text = <<>>, !.out = push_text(run.acc_text, @)]
    /\ pc' = "cm_done"
    /\ UNCHANGED imf /\ UNCHANGED notImfVars

NextComment ==
    \/ CmOpen
    \/ CmPair
    \/ CmPairsEnd
    \/ CmError
    \/ CmText
    \/ CmQP
    \/ CmNested
    \/ CmReturn

SpecComment == InitComment /\ [][NextComment]_vars

\* A content list as the claim wants it, at every depth
RECURSIVE Coalesced(_)
Coalesced(items) ==
    /\ \A k \in 1..Len(items) :
        /\ items[k].kind \in {"Text", "Comment"}
        /\ items[k].kind = "Text" => items[k].text # <<>>
        /\ items[k].kind = "Comment" => Coalesced(items[k].items)
    /\ \A k \in 1..(Len(items) - 1) :
        ~(items[k].kind = "Text" /\ items[k + 1].kind = "Text")

\* The positions of the nested comments among the written items, the j-th
\* of them, and the end of the list after the last
NestedAt(its) == { k \in 1..Len(its) : its[k].cont.nested }

NthNested(its, j) ==
    IF j = 0 THEN 0
    ELSE IF j > Cardinality(NestedAt(its)) THEN Len(its) + 1
    ELSE CHOOSE p \in NestedAt(its) : Cardinality({ q \in NestedAt(its) : q < p }) = j - 1

\* The text written between the j-th nested comment and the next one (or
\* the closing parenthesis): white space, literal text and quoted-pairs
RunBetween(c, j) ==
    Flatten([k \in 1..(NthNested(c.items, j + 1) - NthNested(c.items, j) - 1) |->
                c.items[NthNested(c.items, j) + k].ws.text
                \o c.items[NthNested(c.items, j) + k].cont.text])
    \o (IF j < Cardinality(NestedAt(c.items))
        THEN c.items[NthNested(c.items, j + 1)].ws.text
        ELSE c.trail.text)

\* What the written comment stands for: each run that is not empty as one
\* Text, each nested comment after the run before it
CommentReference(c) ==
    Flatten([j \in 1..(Cardinality(NestedAt(c.items)) + 1) |->
        (IF RunBetween(c, j - 1) # <<>> THEN <<CommentText(RunBetween(c, j - 1))>> ELSE <<>>)
        \o (IF j <= Cardinality(NestedAt(c.items))
            THEN <<CommentNested(c.items[NthNested(c.items, j)].cont.items)>>
            ELSE <<>>)])

\* The written comment holds a byte above 127
HasHighByte(c) == \E k \in 1..Len(c.items) : \E n \in 1..Len(c.items[k].cont.raw) :
                      c.items[k].cont.raw[n] >= 128

\* C23: the content list of a comment has, at every depth, no quoted-pair
\* item, no empty text item and no two adjacent text items; the text,
\* quoted-pairs and folding white space between two nested comments are
\* one text run, and each nested comment is an item of its own at its place.
C23_CommentContent ==
    (imf.fn = "comment" /\ pc \in {"cm_done", "cm_error"})
        => /\ pc = "cm_done" <=> ~(imf.policy = "Legacy" /\ HasHighByte(imf))
           /\ pc = "cm_done" =>
                /\ Coalesced(run.out)
                /\ run.out = CommentReference(imf)
                /\ run.rest = <<>>
                /\ \A r \in {comment(imf.policy, run.input)} :
                      r.ok /\ r.out = run.out

\* ( () SP CRLF HTAB a \( (b\ ) ): text, a quoted-pair and folding white
\* space between two nested comments, as one run
C23_Witness ==
    /\ pc = "cm_done"
    /\ Len(imf.items) = 3
    /\ run.out = << CommentNested(<<>>), CommentText(<<32, 9, 97, 40>>),
                    CommentNested(<<CommentText(<<98, 32>>)>>) >>

-----------------------------------------------------------------------------
(* rfc2231: _parameter_list, then decode_parameter_list on what it        *)
(* returns, as in content_type and content_disposition                     *)

\* The arm of decode_parameter_list that is unreachable!(): no section and
\* Value::Extended(ExtendedValue::Other(..))
ReachesUnreachable(p) == p.section = NoSection /\ p.value.kind = "Other"

\* preceded(pair(tag(";"), ofws), parameter)
ListParameter(i) ==
    and_then(tag(<<59>>, i), LAMBDA s :
    and_then(ofws(s.rest), LAMBDA w : parameter(w.rest)))

\* pair(opt(tag(";")), opt(crlf)): what is left after it
ListEnd(i) ==
    and_then(opt(tag(<<59>>, i), i, <<>>), LAMBDA a : opt(crlf(a.rest), a.rest, <<>>))


(* The parameter lists that are written: up to MaxWritten parameters named *)
(* a, each with or without digits after "*", with or without the "*" of an *)
(* extended parameter, and a value.                                        *)

MaxWritten == 2

\* No "*" and digits, or "*" and 0, 1, 9, 10, 01, 00, 12345678, 99999999,
\* 100000000, 123456789, 012345678
WrittenSections ==
    { <<>>, <<42, 48>>, <<42, 49>>, <<42, 57>>, <<42, 49, 48>>, <<42, 48, 49>>, <<42, 48, 48>>, <<42, 49, 50, 51, 52, 53, 54, 55, 56>>,
      <<42, 57, 57, 57, 57, 57, 57, 57, 57>>, <<42, 49, 48, 48, 48, 48, 48, 48, 48, 48>>, <<42, 49, 50, 51, 52, 53, 54, 55, 56, 57>>, <<42, 48, 49, 50, 51, 52, 53, 54, 55, 56>> }

\* x, utf-8''%41, %41b
WrittenValues == { <<120>>, <<117, 116, 102, 45, 56, 39, 39, 37, 52, 49>>, <<37, 52, 49, 98>> }

WrittenParameters ==
    [section : WrittenSections, star : { <<>>, <<42>> }, val : WrittenValues]

WrittenLists == UNION { [1..n -> WrittenParameters] : n \in 1..MaxWritten }

ListBytes(ws) ==
    Flatten([k \in 1..Len(ws) |->
                <<59, 97>> \o ws[k].section \o ws[k].star \o <<61>> \o ws[k].val])

InitList ==
    /\ header \in { [written |-> ws] : ws \in WrittenLists }
    /\ cd = [NoHeaderParse EXCEPT !.input = ListBytes(header.written),
                                  !.rest = ListBytes(header.written)]
    /\ pc = "pl_many0"
    /\ params = <<>>
    /\ input = <<>>
    /\ simple = EmptyMap
    /\ simple_encoded = EmptyMap
    /\ composite = EmptyMap
    /\ composite_encoding = EmptyMap
    /\ composite_out = EmptyMap
    /\ todo = {}
    /\ seg = IdleSegments
    /\ result = EmptyMap
    /\ word = NoWord
    /\ ew = NoParse
    /\ ImfIdle /\ DsnIdle /\ HsIdle /\ XfIdle

\* many0(preceded(pair(tag(";"), ofws), parameter)): regular_parameter
ListRegular ==
    /\ pc = "pl_many0"
    /\ \E p \in {ListParameter(cd.rest)} :
        /\ p.ok /\ p.out.value.kind = "Regular"
        /\ cd' = [cd EXCEPT !.rest = p.rest, !.params = Append(@, p.out)]
    /\ UNCHANGED <<header, pc>> /\ UNCHANGED notDispositionVars

\* many0(..): extended_parameter, its first alternative
ListExtendedInitial ==
    /\ pc = "pl_many0"
    /\ \E p \in {ListParameter(cd.rest)} :
        /\ p.ok /\ p.out.value.kind = "Initial"
        /\ cd' = [cd EXCEPT !.rest = p.rest, !.params = Append(@, p.out)]
    /\ UNCHANGED <<header, pc>> /\ UNCHANGED notDispositionVars

\* many0(..): extended_parameter, its second alternative
ListExtendedOther ==
    /\ pc = "pl_many0"
    /\ \E p \in {ListParameter(cd.rest)} :
        /\ p.ok /\ p.out.value.kind = "Other"
        /\ cd' = [cd EXCEPT !.rest = p.rest, !.params = Append(@, p.out)]
    /\ UNCHANGED <<header, pc>> /\ UNCHANGED notDispositionVars

\* The many0 ends; pair(opt(tag(";")), opt(crlf)); decode_parameter_list is
\* called on the parameters
ListReturn ==
    /\ pc = "pl_many0"
    /\ ~ListParameter(cd.rest).ok
    /\ cd' = [cd EXCEPT !.rest = ListEnd(cd.rest).rest]
    /\ params' = cd.params
    /\ input' = cd.params
    /\ pc' = "loop"
    /\ UNCHANGED <<header, simple, simple_encoded, composite, composite_encoding,
                   composite_out, todo, seg, result>>
    /\ UNCHANGED <<wordVars, imfVars, dsn, hs, xf>>

NextList ==
    \/ ListRegular
    \/ ListExtendedInitial
    \/ ListExtendedOther
    \/ ListReturn
    \/ NextParams

SpecList == InitList /\ [][NextList]_vars

\* The digits of a written section index: 0, or 1 to 8 digits the first of
\* which is not 0
WellWrittenSection(s) ==
    \/ s = <<42, 48>>
    \/ /\ Len(s) \in 2..9
       /\ s[2] \in 49..57
       /\ \A k \in 3..Len(s) : s[k] \in 48..57

\* C24: a section index that the grammar accepts is 0, written *0, or a
\* number of 1 to 8 digits without leading zero: every parsed section is in
\* 0..99999999, which is below 2^32, and a name written with *01, or with
\* 9 or more digits, is not accepted.
C24_SectionRange ==
    header # NoHeader /\ "written" \in DOMAIN header =>
        /\ Len(cd.params) <= Len(header.written)
        /\ \A k \in 1..Len(cd.params) :
            /\ cd.params[k].section = NoSection <=> header.written[k].section = <<>>
            /\ cd.params[k].section # NoSection =>
                /\ WellWrittenSection(header.written[k].section)
                /\ cd.params[k].section = DecimalValue(Tail(header.written[k].section))
                /\ cd.params[k].section \in 0..99999999

\* a*99999999=x is accepted with section 99999999, and the a*01=x after it
\* is not.
C24_Witness ==
    /\ pc = "done"
    /\ Len(header.written) = 2
    /\ header.written[2].section = <<42, 48, 49>>
    /\ Len(cd.params) = 1
    /\ cd.params[1].section = 99999999
    /\ cd.params[1].value.kind = "Regular"

\* C25: decode_parameter_list never reaches unreachable!() on a list the
\* grammar produces: a parameter without section carries a Regular or an
\* extended-Initial value, never an extended-Other one.
C25_NoUnreachable ==
    /\ \A k \in 1..Len(cd.params) : ~ReachesUnreachable(cd.params[k])
    /\ (pc = "loop" /\ input # <<>>) => ~ReachesUnreachable(Head(input))
    /\ \A k \in 1..Len(cd.params) :
          cd.params[k].section = NoSection => cd.params[k].value.kind \in {"Regular", "Initial"}

\* a*=utf-8''%41 and a*1*=%41b went through the loop: the first by the arm
\* of the names without section, the second as a continuation.
C25_Witness ==
    /\ pc = "done"
    /\ Len(params) = 2
    /\ params[1].section = NoSection /\ params[1].value.kind = "Initial"
    /\ params[2].section = 1 /\ params[2].value.kind = "Other"

-----------------------------------------------------------------------------
\* The codec of the reassembly of name n in list ps: the one named by the
\* last extended-initial segment that names one, else UTF-8
SectionedCodec(ps, n) ==
    IF NamingInitials(Sectioned(ps, n)) = <<>> THEN "UTF_8"
    ELSE LabelCodec(Last(NamingInitials(Sectioned(ps, n))).value.encoding)

\* C26: a name that occurs both without section index (regular or
\* extended-initial) and with one has, as its single output value, the
\* reassembled sectioned value, in whatever order the parameters come.
C26_SectionedWins ==
    pc = "done" /\ params # <<>> =>
        \A n \in SectionedNames(params) \cap UnsectionedNames(params) :
            /\ n \in DOMAIN result
            /\ \A f \in Permutations(1..Len(params)) :
                  decode_parameter_list(Permute(params, f))[n]
                      = RunsValue(Ascending(Sectioned(Permute(params, f), n)),
                                  SectionedCodec(Permute(params, f), n))

\* title=a before title*0="hello", with title*=Latin1''%E9 last: the value
\* is "hello".
C26_Witness ==
    /\ pc = "done"
    /\ params = << Parameter(NameTitle, NoSection, Regular(<<97>>)),
                   Parameter(NameTitle, 0, Regular(TextHello)),
                   Parameter(NameTitle, NoSection, Initial(LabelLatin1, <<233>>)) >>
    /\ result = (NameTitle :> TextHello)

=============================================================================
